---- MODULE Spec2Model ----
(***************************************************************************)
(* Model of the drink/store discovery API core:                            *)
(*   - DriverContainer (src/api/app/driver/base.py): lazy initialization,  *)
(*     sharing through app.state, cleanup and health checks of drivers,    *)
(*     run by asyncio tasks that interleave at their await points;         *)
(*   - MongoDriver query engine (src/api/app/driver/mongo.py): the         *)
(*     find_drinks and find_drink_stores_with_menu operations.             *)
(***************************************************************************)
EXTENDS Integers, Sequences, FiniteSets, TLC

(* ---------------------------- bounds ---------------------------------- *)
\* number of asyncio tasks that call into the containers
MaxTasks == 2
\* number of coroutines (get_instance, cleanup_all, health_check_all) started
MaxOps == 4
\* number of register_driver calls per (container, name)
MaxReg == 1

(* ------------------------- container: names --------------------------- *)
None == 0
\* the DriverContainer object that lifespan() stores as app.state.driver_container
ContainerObj == -1

Tasks == 1..MaxTasks
Cont == {1, 2}

DefaultNames == {"httpx", "storage", "mongo"}
\* names that get_instance and register_driver are called with
CallNames == {"mongo", "httpx", "mongo_driver", "driver_container"}
RegNames == {"mongo", "mongo_driver"}
\* names requested where cleanup is exercised
GetNames == {"mongo", "httpx"}
AllNames == DefaultNames \cup CallNames \cup RegNames

\* mutant: "{name}_driver" is probed before "{name}"
PossibleNamesDriverFirst(name) ==
    << name \o "_driver", name, "async_" \o name \o "_driver", name \o "_pool" >>

\* base.py:200-205, the attribute names probed for a driver name, in order
PossibleNames(name) ==
    << name, name \o "_driver", "async_" \o name \o "_driver", name \o "_pool" >>

\* base.py:229-231, the attribute name an instance is stored under
StoreAttrName(name) ==
    IF name = "mysql" THEN name \o "_pool" ELSE name \o "_driver"

Attrs == UNION { { PossibleNames(n)[i] : i \in 1..4 } : n \in AllNames }

VARIABLES
    app_state,    \* the shared state object: attribute name -> value (None: absent)
    uses_state,   \* container -> TRUE when it was constructed with app_state
    instances,    \* container -> its _instances dict, in insertion order
    drivers,      \* container -> name -> driver object (0: not registered)
    locks,        \* container -> name -> lock object of that name (0: none)
    locked,       \* the lock objects <<container, name, lock>> that are held
    waitq,        \* tasks waiting in a lock's acquire(), in arrival order
    task,         \* task -> the coroutine it runs and its local variables
    init_calls,   \* container -> name -> number of driver.initialize calls
    next_inst,    \* the next fresh instance reference
    cleaned,      \* instances on which a driver's cleanup was invoked
    ops,          \* number of coroutines started so far
    mongo_drv,    \* container -> the fields of its registered MongoDriver object
    storage_drv,  \* container -> the fields of its registered StorageDriver object
    bad_cfg       \* container -> the default drivers whose initialize raises
                  \* before its first await, given the container's config

cvars == << app_state, uses_state, instances, drivers, locks, locked, waitq,
            task, init_calls, next_inst, cleaned, ops, mongo_drv, storage_drv,
            bad_cfg >>

\* state of the query engine (MongoDriver operations)
VARIABLES
    db_store,     \* documents of collection store
    db_item,      \* documents of collection menu_item
    req,          \* the arguments of the operation in progress
    qpc,          \* the phase the operation is in
    q_wait,       \* the await of MongoDriver.aggregate it is suspended at
    q_cursor,     \* the documents of the cursor collection.aggregate returned
    queries,      \* the aggregate calls issued so far: <<collection, pipeline>>,
                  \* followed by the exception when the call raised one
    q_pairs,      \* matching_stores of _find_stores_with_drink_tags
    q_stores,     \* the stores the store query returned
    q_items,      \* menu_items: the answer of the last menu_item query, as
                  \* the operation left its documents
    result,       \* the list the operation returned
    q_err,        \* the exception the operation raised to its caller
    writes,       \* number of insert, update and delete calls so far
    w_call,       \* the insert, update or delete call that is suspended
    w_ret,        \* the count the latest call that returned has returned
    w_err         \* the exception the latest call raised, Null when none

qvars == << db_store, db_item, req, qpc, q_wait, q_cursor, queries, q_pairs,
            q_stores, q_items, result, q_err, writes, w_call, w_ret,
            w_err >>

IdleTask ==
    [ op |-> "idle", c |-> 0, name |-> "", pc |-> "idle", lk |-> 0, pos |-> 0,
      used |-> 0, pending |-> {}, running |-> {}, snap |-> {}, failed |-> {},
      status |-> {}, ret |-> None, err |-> "", drv |-> 0 ]

(* ------------------------ container: helpers -------------------------- *)
\* dict lookups on _instances (a sequence of <<name, instance>> pairs)
InCache(c, name) == \E i \in 1..Len(instances[c]) : instances[c][i][1] = name

CacheGet(c, name) ==
    LET i == CHOOSE i \in 1..Len(instances[c]) : instances[c][i][1] = name
    IN  instances[c][i][2]

\* self._instances[name] = instance: in place when the key exists, else appended
CachePut(d, name, inst) ==
    IF \E i \in 1..Len(d) : d[i][1] = name
    THEN [ i \in 1..Len(d) |-> IF d[i][1] = name THEN << name, inst >> ELSE d[i] ]
    ELSE Append(d, << name, inst >>)

RECURSIVE ProbeFrom(_, _, _)
ProbeFrom(st, names, i) ==
    IF i > Len(names) THEN None
    ELSE IF st[names[i]] # None THEN st[names[i]]
    ELSE ProbeFrom(st, names, i + 1)

\* DriverContainer._get_from_app_state
GetFromAppState(c, name) ==
    IF ~uses_state[c] THEN None
    ELSE ProbeFrom(app_state, PossibleNames(name), 1)

\* DriverContainer._store_to_app_state: the app_state after the call
StoreToAppState(c, name, inst) ==
    IF ~uses_state[c] THEN app_state
    ELSE [ app_state EXCEPT ![StoreAttrName(name)] = inst ]

\* mutant: the registration check is skipped
IsRegisteredNoCheck(c, name) == TRUE

\* get_instance: "if name not in self._drivers"
IsRegistered(c, name) == drivers[c][name] # 0

\* mutant: the per-name lock never makes a caller wait
LockFreeNoLock(c, name) == TRUE

\* mutant: one lock for the whole container, any held lock makes a caller wait
LockFreeGlobal(c, name) == \A l \in locked : l[1] # c

\* asyncio.Lock.acquire takes the lock at once only when it is not held
LockFree(c, name) == << c, name, locks[c][name] >> \notin locked

\* first task queued on lock object <<c, name, lk>> (0: nobody waits)
FirstWaiter(c, name, lk) ==
    LET idx == { i \in 1..Len(waitq) :
                   /\ task[waitq[i]].c = c
                   /\ task[waitq[i]].name = name
                   /\ task[waitq[i]].lk = lk }
    IN  IF idx = {} THEN 0
        ELSE CHOOSE i \in idx : \A j \in idx : i <= j

RemoveAt(s, i) == [ j \in 1..(Len(s) - 1) |-> IF j < i THEN s[j] ELSE s[j + 1] ]

\* asyncio.Lock.release: wake the first waiter, which then owns the lock
ReleaseLocked(c, name, lk) ==
    IF FirstWaiter(c, name, lk) = 0 THEN locked \ { << c, name, lk >> } ELSE locked

ReleaseQueue(c, name, lk) ==
    IF FirstWaiter(c, name, lk) = 0 THEN waitq
    ELSE RemoveAt(waitq, FirstWaiter(c, name, lk))

ReleaseTask(tk, c, name, lk) ==
    IF FirstWaiter(c, name, lk) = 0 THEN tk
    ELSE [ tk EXCEPT ![waitq[FirstWaiter(c, name, lk)]].pc = "acquired" ]

(* ----------------------- the MongoDriver object ----------------------- *)
\* MongoDriver.__init__ and _reset_state (mongo.py:39-43, 152-156):
\* driver_set is "_driver is not None", config_set is "_database_name is
\* not None or _connection_string is not None", db_name is "_database_name
\* is not None"; last is the latest event of
\* the object's life: "new", "running" (initialize called, not returned),
\* "ok", "failed", "cleanup"
MongoReset(last) ==
    [ driver_set |-> FALSE, config_set |-> FALSE, db_name |-> FALSE,
      last |-> last ]

\* initialize up to its first suspension, the ping of _test_connection:
\* _extract_config and _create_driver have assigned the fields
\* (mongo.py:62-67, 81-112)
MongoStarted(c) ==
    [ driver_set |-> TRUE, config_set |-> TRUE,
      db_name |-> "mongo.database" \notin bad_cfg[c], last |-> "running" ]

\* MongoDriver._is_initialized (mongo.py:166-170)
IsInitialized(d) == d.driver_set /\ d.config_set

(* ---------------------- the StorageDriver object ---------------------- *)
\* The fields of a StorageDriver: project_set is "_project is set",
\* driver_set is "_driver is set and not None".  __init__ assigns neither
\* (storage.py:30-34).

\* StorageDriver._is_initialized (storage.py:136-138); on a driver whose
\* fields were never assigned the read raises AttributeError, which
\* health_check_all answers with False as well (base.py:331-333)
StorageIsInitialized(d) == d.project_set /\ d.driver_set

\* storage_drv after task t went through the start of get_instance:
\* changed when t called initialize of the StorageDriver and is suspended
\* in it; a config without project raises before any field is assigned
StorageAfterCall(tk, t) ==
    IF tk[t].name = "storage" /\ tk[t].pc = "initializing"
    THEN [ storage_drv EXCEPT ![tk[t].c] =
              [ project_set |-> TRUE, driver_set |-> TRUE ] ]
    ELSE storage_drv

\* initialize raises before its first await: MongoDriver and StorageDriver
\* in _extract_config, when the config lacks the required option
\* (mongo.py:87-88, storage.py:75-76), MongoDriver in _create_driver, when
\* an option of the client cannot be converted (mongo.py:103-108),
\* HttpxDriver when the package is missing or the client cannot be built
\* (httpx.py:48-49, 62-71)
InitRaisesAtOnce(c, name) ==
    \/ name \in bad_cfg[c]
    \/ name = "mongo" /\ "mongo.options" \in bad_cfg[c]

\* HttpxDriver.initialize has no await: it returns the client in the run
\* that called it (httpx.py:31-71)
InitReturnsAtOnce(c, name) == name = "httpx" /\ name \notin bad_cfg[c]

\* an initialize call that is suspended can still raise: not that of
\* StorageDriver, whose _test_connection logs the error of its only await
\* and returns (storage.py:100-111)
InitMayFailLate(name) == name # "storage"

\* mongo_drv after task t went through the start of get_instance: changed
\* when t called initialize of the MongoDriver, which raised in
\* _extract_config, before any field was assigned, or raised in
\* _create_driver, after _extract_config assigned _database_name and
\* before _driver was assigned (mongo.py:90-91, 103-111), or is suspended
\* in the ping with its fields assigned
MongoAfterCall(tk, t) ==
    IF tk[t].name # "mongo" THEN mongo_drv
    ELSE IF tk[t].pc = "initializing"
    THEN [ mongo_drv EXCEPT ![tk[t].c] = MongoStarted(tk[t].c) ]
    ELSE IF tk[t].pc = "done" /\ tk[t].err = "InitError"
    THEN IF "mongo.options" \in bad_cfg[tk[t].c]
         THEN [ mongo_drv EXCEPT ![tk[t].c] =
                  [ @ EXCEPT !.config_set = TRUE, !.db_name = TRUE,
                             !.last = "failed" ] ]
         ELSE [ mongo_drv EXCEPT ![tk[t].c].last = "failed" ]
    ELSE mongo_drv

\* mongo_drv after the initialize call of task t ended with outcome last;
\* the object t called is still the registered one when tk[t].drv says so
MongoAfterInit(t, last) ==
    IF task[t].name = "mongo" /\ task[t].drv = drivers[task[t].c]["mongo"]
    THEN [ mongo_drv EXCEPT ![task[t].c].last = last ]
    ELSE mongo_drv

(* -------------------------- container: Init --------------------------- *)
\* the configurations a container is built with: every default driver can
\* be initialized, or one of them raises before its first await, or the
\* mongo config names a connection_string and no database
\* ("mongo.database": the MongoDriver starts without a default database),
\* or the mongo config names a database and a connect_timeout_ms that is
\* not a number ("mongo.options": _create_driver raises)
BadConfigs ==
    { {}, { "mongo" }, { "httpx" }, { "storage" }, { "mongo.database" },
      { "mongo.options" } }

InitContainer ==
    /\ app_state = [ a \in Attrs |->
                       IF a = "driver_container" THEN ContainerObj ELSE None ]
    /\ instances = [ c \in Cont |-> << >> ]
    /\ drivers = [ c \in Cont |-> [ n \in AllNames |->
                     IF n \in DefaultNames THEN 1 ELSE 0 ] ]
    /\ locks = [ c \in Cont |-> [ n \in AllNames |->
                     IF n \in DefaultNames THEN 1 ELSE 0 ] ]
    /\ locked = {}
    /\ waitq = << >>
    /\ task = [ t \in Tasks |-> IdleTask ]
    /\ init_calls = [ c \in Cont |-> [ n \in AllNames |-> 0 ] ]
    /\ next_inst = 1
    /\ cleaned = {}
    /\ ops = 0
    /\ mongo_drv = [ c \in Cont |-> MongoReset("new") ]
    /\ storage_drv =
          [ c \in Cont |-> [ project_set |-> FALSE, driver_set |-> FALSE ] ]
    /\ bad_cfg \in { [ c \in Cont |-> b ] : b \in BadConfigs }

\* the application's container after get_instance("mongo") has returned
\* the client, which is where a request handler calls the query methods
InitContainerStarted ==
    /\ app_state = [ a \in Attrs |->
                       IF a = "driver_container" THEN ContainerObj
                       ELSE IF a = StoreAttrName("mongo") THEN 1 ELSE None ]
    /\ instances = [ c \in Cont |->
                       IF c = 1 THEN << << "mongo", 1 >> >> ELSE << >> ]
    /\ drivers = [ c \in Cont |-> [ n \in AllNames |->
                     IF n \in DefaultNames THEN 1 ELSE 0 ] ]
    /\ locks = [ c \in Cont |-> [ n \in AllNames |->
                     IF n \in DefaultNames THEN 1 ELSE 0 ] ]
    /\ locked = {}
    /\ waitq = << >>
    /\ task = [ t \in Tasks |-> IdleTask ]
    /\ init_calls = [ c \in Cont |-> [ n \in AllNames |->
                        IF c = 1 /\ n = "mongo" THEN 1 ELSE 0 ] ]
    /\ next_inst = 2
    /\ cleaned = {}
    /\ ops = 1
    /\ bad_cfg \in { [ c \in Cont |-> b ] : b \in { {}, { "mongo.database" } } }
    /\ mongo_drv = [ c \in Cont |->
                       IF c = 1 THEN [ MongoStarted(1) EXCEPT !.last = "ok" ]
                       ELSE MongoReset("new") ]
    /\ storage_drv =
          [ c \in Cont |-> [ project_set |-> FALSE, driver_set |-> FALSE ] ]

(* ----------------------- container: get_instance ---------------------- *)
\* the body of "async with self._locks[name]" up to the first suspension
\* of "await initialize", or to its end when initialize does not suspend
\* (base.py:264-288), run by the task that owns the lock object lk
LockedSection(t, c, name, lk) ==
    IF GetFromAppState(c, name) # None
    THEN /\ task' = ReleaseTask(
                      [ task EXCEPT ![t] = [ IdleTask EXCEPT
                          !.op = "get", !.c = c, !.name = name, !.pc = "done",
                          !.ret = GetFromAppState(c, name) ] ], c, name, lk)
         /\ locked' = ReleaseLocked(c, name, lk)
         /\ waitq' = ReleaseQueue(c, name, lk)
         /\ UNCHANGED << init_calls, instances, app_state, next_inst >>
    ELSE IF InCache(c, name)
    THEN /\ task' = ReleaseTask(
                      [ task EXCEPT ![t] = [ IdleTask EXCEPT
                          !.op = "get", !.c = c, !.name = name, !.pc = "done",
                          !.ret = CacheGet(c, name) ] ], c, name, lk)
         /\ locked' = ReleaseLocked(c, name, lk)
         /\ waitq' = ReleaseQueue(c, name, lk)
         /\ UNCHANGED << init_calls, instances, app_state, next_inst >>
    ELSE IF InitRaisesAtOnce(c, name)
    THEN /\ task' = ReleaseTask(
                      [ task EXCEPT ![t] = [ IdleTask EXCEPT
                          !.op = "get", !.c = c, !.name = name, !.pc = "done",
                          !.err = "InitError", !.drv = drivers[c][name] ] ],
                      c, name, lk)
         /\ locked' = ReleaseLocked(c, name, lk)
         /\ waitq' = ReleaseQueue(c, name, lk)
         /\ init_calls' = [ init_calls EXCEPT ![c][name] = @ + 1 ]
         /\ UNCHANGED << instances, app_state, next_inst >>
    ELSE IF InitReturnsAtOnce(c, name)
    THEN /\ task' = ReleaseTask(
                      [ task EXCEPT ![t] = [ IdleTask EXCEPT
                          !.op = "get", !.c = c, !.name = name, !.pc = "done",
                          !.ret = next_inst, !.drv = drivers[c][name] ] ],
                      c, name, lk)
         /\ locked' = ReleaseLocked(c, name, lk)
         /\ waitq' = ReleaseQueue(c, name, lk)
         /\ init_calls' = [ init_calls EXCEPT ![c][name] = @ + 1 ]
         /\ instances' = [ instances EXCEPT ![c] = CachePut(@, name, next_inst) ]
         /\ app_state' = StoreToAppState(c, name, next_inst)
         /\ next_inst' = next_inst + 1
    ELSE /\ task' = [ task EXCEPT ![t] = [ IdleTask EXCEPT
                          !.op = "get", !.c = c, !.name = name,
                          !.pc = "initializing", !.lk = lk,
                          !.drv = drivers[c][name] ] ]
         /\ locked' = locked \cup { << c, name, lk >> }
         /\ init_calls' = [ init_calls EXCEPT ![c][name] = @ + 1 ]
         /\ UNCHANGED << waitq, instances, app_state, next_inst >>

\* get_instance(name) from its call to its first suspension, or to its end
\* when nothing on its path suspends (base.py:249-288)
GetInstanceCall(t, c, name) ==
    /\ UNCHANGED << qvars, bad_cfg >>
    /\ task[t].op = "idle"
    /\ ops < MaxOps
    /\ ops' = ops + 1
    /\ IF ~IsRegistered(c, name)
       THEN /\ task' = [ task EXCEPT ![t] = [ IdleTask EXCEPT
                           !.op = "get", !.c = c, !.name = name, !.pc = "done",
                           !.err = "ValueError" ] ]
            /\ UNCHANGED << locked, waitq, init_calls, instances, app_state,
                            next_inst >>
       ELSE IF GetFromAppState(c, name) # None
       THEN /\ task' = [ task EXCEPT ![t] = [ IdleTask EXCEPT
                           !.op = "get", !.c = c, !.name = name, !.pc = "done",
                           !.ret = GetFromAppState(c, name) ] ]
            /\ UNCHANGED << locked, waitq, init_calls, instances, app_state,
                            next_inst >>
       ELSE IF InCache(c, name)
       THEN /\ task' = [ task EXCEPT ![t] = [ IdleTask EXCEPT
                           !.op = "get", !.c = c, !.name = name, !.pc = "done",
                           !.ret = CacheGet(c, name) ] ]
            /\ UNCHANGED << locked, waitq, init_calls, instances, app_state,
                            next_inst >>
       ELSE IF LockFree(c, name)
       THEN LockedSection(t, c, name, locks[c][name])
       ELSE /\ task' = [ task EXCEPT ![t] = [ IdleTask EXCEPT
                           !.op = "get", !.c = c, !.name = name,
                           !.pc = "waiting", !.lk = locks[c][name] ] ]
            /\ waitq' = Append(waitq, t)
            /\ UNCHANGED << locked, init_calls, instances, app_state,
                            next_inst >>
    /\ UNCHANGED << uses_state, drivers, locks, cleaned >>
    /\ mongo_drv' = MongoAfterCall(task', t)
    /\ storage_drv' = StorageAfterCall(task', t)

\* a task woken by release() resumes inside the lock (base.py:262-277)
GetInstanceWake(t) ==
    /\ UNCHANGED << qvars, bad_cfg >>
    /\ UNCHANGED ops
    /\ task[t].op = "get"
    /\ task[t].pc = "acquired"
    /\ LockedSection(t, task[t].c, task[t].name, task[t].lk)
    /\ UNCHANGED << uses_state, drivers, locks, cleaned >>
    /\ mongo_drv' = MongoAfterCall(task', t)
    /\ storage_drv' = StorageAfterCall(task', t)

\* driver.initialize returned an instance (base.py:277-284)
InitializeOk(t) ==
    /\ UNCHANGED << qvars, bad_cfg >>
    /\ mongo_drv' = MongoAfterInit(t, "ok")
    /\ UNCHANGED storage_drv
    /\ UNCHANGED ops
    /\ task[t].op = "get"
    /\ task[t].pc = "initializing"
    /\ LET c == task[t].c
           name == task[t].name
           inst == next_inst
       IN  /\ instances' = [ instances EXCEPT ![c] = CachePut(@, name, inst) ]
           /\ app_state' = StoreToAppState(c, name, inst)
           /\ next_inst' = next_inst + 1
           /\ task' = ReleaseTask(
                        [ task EXCEPT ![t].pc = "done", ![t].ret = inst ],
                        c, name, task[t].lk)
           /\ locked' = ReleaseLocked(c, name, task[t].lk)
           /\ waitq' = ReleaseQueue(c, name, task[t].lk)
    /\ UNCHANGED << uses_state, drivers, locks, init_calls, cleaned >>

\* mutant: a failed initialize leaves a half-built instance in the cache
InitializeFailCaching(t) ==
    /\ UNCHANGED << qvars, bad_cfg >>
    /\ UNCHANGED << mongo_drv, storage_drv >>
    /\ UNCHANGED ops
    /\ task[t].op = "get"
    /\ task[t].pc = "initializing"
    /\ InitMayFailLate(task[t].name)
    /\ LET c == task[t].c
           name == task[t].name
       IN  /\ instances' = [ instances EXCEPT ![c] = CachePut(@, name, next_inst) ]
           /\ next_inst' = next_inst + 1
           /\ task' = ReleaseTask(
                        [ task EXCEPT ![t].pc = "done", ![t].err = "InitError" ],
                        c, name, task[t].lk)
           /\ locked' = ReleaseLocked(c, name, task[t].lk)
           /\ waitq' = ReleaseQueue(c, name, task[t].lk)
    /\ UNCHANGED << app_state, uses_state, drivers, locks, init_calls, cleaned >>

\* mutant: a failed initialize leaves the lock of the name held
InitializeFailHolding(t) ==
    /\ UNCHANGED << qvars, bad_cfg >>
    /\ UNCHANGED << mongo_drv, storage_drv >>
    /\ UNCHANGED ops
    /\ task[t].op = "get"
    /\ task[t].pc = "initializing"
    /\ InitMayFailLate(task[t].name)
    /\ task' = [ task EXCEPT ![t].pc = "done", ![t].err = "InitError" ]
    /\ UNCHANGED << app_state, uses_state, instances, drivers, locks, locked,
                    waitq, init_calls, next_inst, cleaned >>

\* driver.initialize raised (base.py:286-288): logged and re-raised
InitializeFail(t) ==
    /\ UNCHANGED << qvars, bad_cfg >>
    /\ mongo_drv' = MongoAfterInit(t, "failed")
    /\ UNCHANGED storage_drv
    /\ UNCHANGED ops
    /\ task[t].op = "get"
    /\ task[t].pc = "initializing"
    /\ InitMayFailLate(task[t].name)
    /\ LET c == task[t].c
           name == task[t].name
       IN  /\ task' = ReleaseTask(
                        [ task EXCEPT ![t].pc = "done", ![t].err = "InitError" ],
                        c, name, task[t].lk)
           /\ locked' = ReleaseLocked(c, name, task[t].lk)
           /\ waitq' = ReleaseQueue(c, name, task[t].lk)
    /\ UNCHANGED << app_state, uses_state, instances, drivers, locks,
                    init_calls, next_inst, cleaned >>

(* ----------------------- container: cleanup_all ----------------------- *)
\* the <<name, instance>> entries of a container's cache
CacheEntries(c) == { instances[c][i] : i \in 1..Len(instances[c]) }

\* the cache after "self._instances.clear()"
ClearedCache(d) == << >>

\* cleanup_all up to "await asyncio.gather" (base.py:292-300); with nothing
\* to clean it runs to its end without suspending (base.py:299-303)
CleanupCall(t, c) ==
    /\ UNCHANGED << qvars, bad_cfg >>
    /\ UNCHANGED << mongo_drv, storage_drv >>
    /\ task[t].op = "idle"
    /\ ops < MaxOps
    /\ ops' = ops + 1
    /\ LET pend == { instances[c][i] : i \in { j \in 1..Len(instances[c]) :
                                      IsRegistered(c, instances[c][j][1]) } }
       IN  IF pend = {}
           THEN /\ instances' = [ instances EXCEPT ![c] = ClearedCache(@) ]
                /\ task' = [ task EXCEPT ![t] = [ IdleTask EXCEPT
                               !.op = "cleanup", !.c = c, !.pc = "done",
                               !.snap = CacheEntries(c) ] ]
           ELSE /\ task' = [ task EXCEPT ![t] = [ IdleTask EXCEPT
                               !.op = "cleanup", !.c = c, !.pc = "gathering",
                               !.pending = pend, !.snap = CacheEntries(c) ] ]
                /\ UNCHANGED instances
    /\ UNCHANGED << app_state, uses_state, drivers, locks, locked, waitq,
                    init_calls, next_inst, cleaned >>

\* the gathered _cleanup_instance coroutines begin, one after the other in
\* the same turn of the event loop, and each runs to the await inside its
\* driver's cleanup (base.py:311-312; mongo.py:144, httpx.py:80,
\* storage.py:116): cleanup has been invoked on every instance of the
\* batch, each on the driver object registered under its name at that moment
CleanupInvoke(t) ==
    /\ UNCHANGED << qvars, bad_cfg >>
    /\ UNCHANGED << mongo_drv, storage_drv >>
    /\ UNCHANGED ops
    /\ task[t].op = "cleanup"
    /\ task[t].pc = "gathering"
    /\ task[t].pending # {}
    /\ cleaned' = cleaned \cup { e[2] : e \in task[t].pending }
    /\ task' = [ task EXCEPT
                   ![t].running = { << e[1], e[2], drivers[task[t].c][e[1]] >> :
                                      e \in task[t].pending },
                   ![t].pending = {} ]
    /\ UNCHANGED << app_state, uses_state, instances, drivers, locks, locked,
                    waitq, init_calls, next_inst >>

\* mongo_drv after the cleanup of entry e = <<name, instance, driver>> has
\* ended: MongoDriver.cleanup resets, in its finally clause, the object it
\* was called on (mongo.py:140-156), which need no longer be the registered
\* one
MongoAfterCleanup(c, e) ==
    IF e[1] = "mongo" /\ e[3] = drivers[c]["mongo"]
    THEN [ mongo_drv EXCEPT ![c] = MongoReset("cleanup") ]
    ELSE mongo_drv

\* storage_drv after the cleanup of entry e has ended: StorageDriver.cleanup
\* resets the object it was called on after a close that returned, and
\* leaves it as it is when the close raised (storage.py:113-126)
StorageAfterCleanup(c, e, ok) ==
    IF e[1] = "storage" /\ e[3] = drivers[c]["storage"] /\ ok
    THEN [ storage_drv EXCEPT ![c].driver_set = FALSE ]
    ELSE storage_drv

\* the close of one instance of the batch ends (mongo.py:144-150,
\* httpx.py:79-83, storage.py:115-122, base.py:311-316); ok = FALSE when it
\* raised: the exception is logged by the driver's cleanup or by
\* _cleanup_instance
CleanupEnd(t, e, ok) ==
    /\ UNCHANGED << qvars, bad_cfg >>
    /\ UNCHANGED ops
    /\ task[t].op = "cleanup"
    /\ task[t].pc = "gathering"
    /\ e \in task[t].running
    /\ mongo_drv' = MongoAfterCleanup(task[t].c, e)
    /\ storage_drv' = StorageAfterCleanup(task[t].c, e, ok)
    /\ task' = [ task EXCEPT
                   ![t].running = @ \ { e },
                   ![t].failed = IF ok THEN @ ELSE @ \cup { e[1] } ]
    /\ UNCHANGED << app_state, uses_state, instances, drivers, locks, locked,
                    waitq, init_calls, next_inst, cleaned >>

\* mutant: the exception of a failed cleanup leaves cleanup_all
CleanupAllErrorPropagates(failed) ==
    IF failed # {} THEN "CleanupError" ELSE ""

\* the exception cleanup_all ends with: none, gather is called with
\* return_exceptions=True (base.py:299-300)
CleanupAllError(failed) == ""

\* gather has returned: clear the cache (base.py:300-303)
CleanupFinish(t) ==
    /\ UNCHANGED << qvars, bad_cfg >>
    /\ UNCHANGED << mongo_drv, storage_drv >>
    /\ UNCHANGED ops
    /\ task[t].op = "cleanup"
    /\ task[t].pc = "gathering"
    /\ task[t].pending = {}
    /\ task[t].running = {}
    /\ instances' = [ instances EXCEPT ![task[t].c] = ClearedCache(@) ]
    /\ task' = [ task EXCEPT ![t].pc = "done",
                             ![t].err = CleanupAllError(task[t].failed) ]
    /\ UNCHANGED << app_state, uses_state, drivers, locks, locked, waitq,
                    init_calls, next_inst, cleaned >>

(* --------------------- container: health_check_all -------------------- *)
\* health_status[name] = value
StatusPut(status, name, value) ==
    { p \in status : p[1] # name } \cup { << name, value >> }

\* the "for name, instance in self._instances.items()" loop fetching its next
\* item (base.py:326-327): the dict iterator raises RuntimeError when the dict
\* changed size since the loop began, ends after the last entry, and otherwise
\* yields the entry at the next position; unregistered names are skipped,
\* and a MongoDriver or StorageDriver that is not initialized answers
\* False without suspending (mongo.py:158-162, storage.py:128-132)
RECURSIVE HealthAdvance(_, _)
HealthAdvance(rec, d) ==
    IF Len(d) # rec.used
    THEN [ rec EXCEPT !.pc = "done", !.err = "RuntimeError" ]
    ELSE IF rec.pos + 1 > Len(d)
    THEN [ rec EXCEPT !.pc = "done" ]
    ELSE IF ~IsRegistered(rec.c, d[rec.pos + 1][1])
    THEN HealthAdvance([ rec EXCEPT !.pos = @ + 1 ], d)
    ELSE IF d[rec.pos + 1][1] = "mongo" /\ ~IsInitialized(mongo_drv[rec.c])
    THEN HealthAdvance([ rec EXCEPT !.pos = @ + 1,
                           !.status = StatusPut(@, "mongo", FALSE) ], d)
    ELSE IF /\ d[rec.pos + 1][1] = "storage"
            /\ ~StorageIsInitialized(storage_drv[rec.c])
    THEN HealthAdvance([ rec EXCEPT !.pos = @ + 1,
                           !.status = StatusPut(@, "storage", FALSE) ], d)
    ELSE [ rec EXCEPT !.pos = @ + 1, !.name = d[rec.pos + 1][1],
                      !.pc = "checking" ]

\* health_check_all up to its first "await health_check" (base.py:324-329)
HealthCall(t, c) ==
    /\ UNCHANGED << qvars, bad_cfg >>
    /\ UNCHANGED << mongo_drv, storage_drv >>
    /\ task[t].op = "idle"
    /\ ops < MaxOps
    /\ ops' = ops + 1
    /\ task' = [ task EXCEPT ![t] = HealthAdvance(
                   [ IdleTask EXCEPT !.op = "health", !.c = c,
                       !.used = Len(instances[c]),
                       !.snap = { instances[c][i][1] : i \in 1..Len(instances[c]) } ],
                   instances[c]) ]
    /\ UNCHANGED << app_state, uses_state, instances, drivers, locks, locked,
                    waitq, init_calls, next_inst, cleaned >>

\* how an awaited health_check can end: the default drivers catch every
\* exception and answer False (mongo.py:172-182, httpx.py:96-118,
\* storage.py:140-153), another driver may raise
HealthOutcomes(name) ==
    IF name \in DefaultNames THEN { "true", "false" }
    ELSE { "true", "false", "raise" }

\* the awaited health_check ended with outcome "true", "false" or "raise"
\* (base.py:329-333), and the loop goes on to its next item
HealthChecked(t, outcome) ==
    /\ UNCHANGED << qvars, bad_cfg >>
    /\ UNCHANGED << mongo_drv, storage_drv >>
    /\ UNCHANGED ops
    /\ task[t].op = "health"
    /\ task[t].pc = "checking"
    /\ outcome \in HealthOutcomes(task[t].name)
    /\ task' = [ task EXCEPT ![t] = HealthAdvance(
                   [ task[t] EXCEPT
                       !.status = StatusPut(@, task[t].name, outcome = "true"),
                       !.failed = IF outcome = "raise"
                                  THEN @ \cup { task[t].name } ELSE @ ],
                   instances[task[t].c]) ]
    /\ UNCHANGED << app_state, uses_state, instances, drivers, locks, locked,
                    waitq, init_calls, next_inst, cleaned >>

(* --------------------- container: register_driver --------------------- *)
RegCount(c, name) == drivers[c][name] - (IF name \in DefaultNames THEN 1 ELSE 0)

\* register_driver(name, driver): a new driver object and a new lock object
\* replace whatever the name had (base.py:183-184)
RegisterDriver(c, name) ==
    /\ UNCHANGED << qvars, bad_cfg >>
    /\ mongo_drv' = IF name = "mongo"
                    THEN [ mongo_drv EXCEPT ![c] = MongoReset("new") ]
                    ELSE mongo_drv
    /\ storage_drv' = IF name = "storage"
                      THEN [ storage_drv EXCEPT ![c] =
                                [ project_set |-> FALSE,
                                  driver_set |-> FALSE ] ]
                      ELSE storage_drv
    /\ UNCHANGED ops
    /\ RegCount(c, name) < MaxReg
    /\ drivers' = [ drivers EXCEPT ![c][name] = @ + 1 ]
    /\ locks' = [ locks EXCEPT ![c][name] = drivers[c][name] + 1 ]
    /\ UNCHANGED << app_state, uses_state, instances, locked, waitq, task,
                    init_calls, next_inst, cleaned >>

\* the caller of a finished coroutine takes its result; the task is free again
Finish(t) ==
    /\ UNCHANGED << qvars, bad_cfg >>
    /\ UNCHANGED << mongo_drv, storage_drv >>
    /\ UNCHANGED ops
    /\ task[t].pc = "done"
    /\ task' = [ task EXCEPT ![t] = IdleTask ]
    /\ UNCHANGED << app_state, uses_state, instances, drivers, locks, locked,
                    waitq, init_calls, next_inst, cleaned >>

(* ===================== MongoDriver query engine ======================= *)
\* Python None for an optional string argument or a missing string field
Null == "null"
\* Python None for an optional tuple or list argument
NoRange == << >>

\* the store collection, in natural order: schema StoreDoc (schema/db.py)
\* with "dist" standing for the distance of its location from the query
\* point, in meters
StoreCatalogue ==
    << [ store_id |-> "s1", platform |-> "ubereats", name |-> "Cama A",
         brand |-> "cama", source_url |-> "https://u/s1", dist |-> 1000,
         rating |-> [ value |-> 4, review_count |-> 50 ] ],
       [ store_id |-> "s1", platform |-> "foodpanda", name |-> "Louisa B",
         brand |-> "louisa", source_url |-> "https://f/s1", dist |-> 2000,
         rating |-> [ value |-> 3, review_count |-> 5 ] ],
       [ store_id |-> "s2", platform |-> "ubereats", name |-> "CAMA C",
         brand |-> "cama", source_url |-> "https://u/s2", dist |-> 4000,
         rating |-> [ value |-> 5, review_count |-> 200 ] ],
       [ store_id |-> "s3", platform |-> "foodpanda", name |-> "Milksha D",
         brand |-> "milksha", source_url |-> "https://f/s3", dist |-> 6000,
         rating |-> [ value |-> 4, review_count |-> 20 ] ] >>

\* the menu_item collection, in natural order: schema MenuItemDoc, with
\* "score" standing for the text index relevance of the item to the
\* requested tags (0: the text search does not match it)
ItemCatalogue ==
    << [ item_id |-> "i1", store_id |-> "s1", platform |-> "ubereats",
         name |-> "oolong", price |-> 50, score |-> 2 ],
       [ item_id |-> "i2", store_id |-> "s1", platform |-> "foodpanda",
         name |-> "latte", price |-> 30, score |-> 0 ],
       [ item_id |-> "i3", store_id |-> "s2", platform |-> "ubereats",
         name |-> "milk tea", price |-> 25, score |-> 3 ],
       [ item_id |-> "i4", store_id |-> "s3", platform |-> "foodpanda",
         name |-> "straw", price |-> 10, score |-> 0 ],
       [ item_id |-> "i5", store_id |-> "s2", platform |-> "ubereats",
         name |-> "green tea", price |-> 40, score |-> 2 ] >>

\* a case-insensitive regular expression search in a name: the store names
\* a brand matches ({"name": {"$regex": brand, "$options": "i"}}) and the
\* item names a search term matches ("$regexMatch" with options "i")
RegexMatches(name, regex) ==
    << name, regex >> \in { << "Cama A", "cama" >>, << "CAMA C", "cama" >>,
                            << "Cama E", "cama" >>, << "Louisa B", "louisa" >>,
                            << "Milksha D", "milksha" >>,
                            << "milk tea", "tea" >>, << "green tea", "tea" >>,
                            << "latte", "Latte" >> }

(* ------------------------- documents ---------------------------------- *)
\* dict.get(f): None when the key is missing
Get(doc, f) == IF f \in DOMAIN doc THEN doc[f] ELSE Null

\* doc[f] = v
With(doc, f, v) ==
    [ g \in (DOMAIN doc \cup { f }) |-> IF g = f THEN v ELSE doc[g] ]

\* the fields of doc that a $project stage with inclusion list fs keeps
Project(doc, fs) == [ f \in (DOMAIN doc \cap fs) |-> doc[f] ]

RECURSIVE SelectSeqIdx(_, _, _)
\* the subsequence of s at the indices in idx, in order
SelectSeqIdx(s, idx, i) ==
    IF i > Len(s) THEN << >>
    ELSE (IF i \in idx THEN << s[i] >> ELSE << >>) \o SelectSeqIdx(s, idx, i + 1)

RECURSIVE InsertAsc(_, _)
\* pairs <<key, value>>: insert p after the entries whose key is <= p's
InsertAsc(sorted, p) ==
    IF sorted = << >> THEN << p >>
    ELSE IF Head(sorted)[1] <= p[1] THEN << Head(sorted) >> \o InsertAsc(Tail(sorted), p)
    ELSE << p >> \o sorted

RECURSIVE InsertDesc(_, _)
\* pairs <<key, value>>: insert p after the entries whose key is >= p's
InsertDesc(sorted, p) ==
    IF sorted = << >> THEN << p >>
    ELSE IF Head(sorted)[1] >= p[1] THEN << Head(sorted) >> \o InsertDesc(Tail(sorted), p)
    ELSE << p >> \o sorted

RECURSIVE SortPairs(_, _, _)
\* stable sort of <<key, value>> pairs, ascending or descending by key
SortPairs(pairs, desc, acc) ==
    IF pairs = << >> THEN acc
    ELSE SortPairs(Tail(pairs), desc,
                   IF desc THEN InsertDesc(acc, Head(pairs))
                   ELSE InsertAsc(acc, Head(pairs)))

Values(pairs) == [ i \in 1..Len(pairs) |-> pairs[i][2] ]

(* ------------------------ pipeline stages ----------------------------- *)
\* "max_distance_km = 5.0 if not distance_range else distance_range[1]"
\* (mongo.py:653, 722, 1077)
MaxDistanceKm(distance_range) ==
    IF distance_range = NoRange THEN 5 ELSE distance_range[2]

\* MongoDriver._build_geospatial_filter: "maxDistance": radius_km * 1000
BuildGeospatialFilter(radius_km) ==
    [ op |-> "$geoNear", distanceField |-> "distance_in_meter",
      maxDistance |-> radius_km * 1000 ]

\* mutant: with no filter supplied the empty condition {} is returned
BuildStoreFiltersEmpty(platform, rating_range, review_count_range) ==
    (IF platform # Null
     THEN << [ field |-> "platform", eq |-> platform ] >> ELSE << >>)
    \o (IF rating_range # NoRange
        THEN << [ field |-> "rating.value", gte |-> rating_range[1],
                  lte |-> rating_range[2] ] >> ELSE << >>)
    \o (IF review_count_range # NoRange
        THEN << [ field |-> "rating.review_count",
                  gte |-> review_count_range[1],
                  lte |-> review_count_range[2] ] >> ELSE << >>)

\* MongoDriver._build_store_filters: the filter dict as a list of its items
BuildStoreFilters(platform, rating_range, review_count_range) ==
    LET filters ==
          (IF platform # Null
           THEN << [ field |-> "platform", eq |-> platform ] >> ELSE << >>)
          \o (IF rating_range # NoRange
              THEN << [ field |-> "rating.value", gte |-> rating_range[1],
                        lte |-> rating_range[2] ] >> ELSE << >>)
          \o (IF review_count_range # NoRange
              THEN << [ field |-> "rating.review_count",
                        gte |-> review_count_range[1],
                        lte |-> review_count_range[2] ] >> ELSE << >>)
    IN  IF filters # << >> THEN filters ELSE << [ field |-> "$expr", always |-> TRUE ] >>

RECURSIVE JoinTags(_)
\* " ".join(drink_tags)
JoinTags(tags) ==
    IF tags = << >> THEN ""
    ELSE IF Len(tags) = 1 THEN tags[1]
    ELSE tags[1] \o " " \o JoinTags(Tail(tags))

\* MongoDriver._build_drink_tags_filter
BuildDrinkTagsFilter(drink_tags) ==
    IF drink_tags = << >> THEN << [ field |-> "$expr", always |-> TRUE ] >>
    ELSE << [ field |-> "$text", search |-> JoinTags(drink_tags) ] >>

Match(cond) == [ op |-> "$match", cond |-> cond ]

\* the "$or" of {"store_id": store["store_id"]} over a list of documents
StoreConditions(docs) ==
    << [ field |-> "$or",
         store_ids |-> [ i \in 1..Len(docs) |-> docs[i].store_id ] ] >>

\* the "$or" of {"name": {"$regex": brand, "$options": "i"}} over brands
BrandConditions(brands) == << [ field |-> "$or", regexes |-> brands ] >>

(* --------------------- the document store ----------------------------- *)
\* the text index relevance of a document: none without indexed text
Score(doc) == IF "score" \in DOMAIN doc THEN doc.score ELSE 0

\* whether an aggregation expression over the fields of a document is
\* true: $regexMatch is false on a missing input, $in and $eq compare the
\* missing field as a value no argument equals
ExprHolds(doc, e) ==
    CASE e.fn = "$regexMatch" ->
            e.input \in DOMAIN doc /\ RegexMatches(doc[e.input], e.regex)
      [] e.fn = "$in" ->
            /\ e.input \in DOMAIN doc
            /\ \E i \in 1..Len(e.values) : e.values[i] = doc[e.input]
      [] e.fn = "$eq" -> Get(doc, e.input) = e.value

\* whether a document satisfies one item of a $match condition
Satisfies(doc, pred) ==
    CASE pred.field = "$expr" ->
            IF "always" \in DOMAIN pred THEN pred.always
            ELSE \A k \in 1..Len(pred.all) : ExprHolds(doc, pred.all[k])
      [] pred.field = "platform" -> Get(doc, "platform") = pred.eq
      [] pred.field = "platforms" -> Get(doc, "platforms") = pred.eq
      [] pred.field = "rating.value" ->
            /\ "rating" \in DOMAIN doc
            /\ doc.rating.value >= pred.gte /\ doc.rating.value <= pred.lte
      [] pred.field = "rating.review_count" ->
            /\ "rating" \in DOMAIN doc
            /\ doc.rating.review_count >= pred.gte
            /\ doc.rating.review_count <= pred.lte
      [] pred.field = "price" -> "price" \in DOMAIN doc /\ doc.price >= pred.gte
      [] pred.field = "$text" -> Score(doc) > 0
      [] pred.field = "store_id" -> Get(doc, "store_id") = pred.eq
      [] pred.field = "$or" /\ "store_ids" \in DOMAIN pred ->
            \E i \in 1..Len(pred.store_ids) : doc.store_id = pred.store_ids[i]
      [] pred.field = "$or" /\ "regexes" \in DOMAIN pred ->
            \E i \in 1..Len(pred.regexes) : RegexMatches(Get(doc, "name"), pred.regexes[i])

Matches(doc, cond) == \A i \in 1..Len(cond) : Satisfies(doc, cond[i])

RECURSIVE Distinct(_, _)
\* the first occurrences of s, in order ($group keeps one document per key)
Distinct(s, seen) ==
    IF s = << >> THEN << >>
    ELSE IF Head(s) \in seen THEN Distinct(Tail(s), seen)
    ELSE << Head(s) >> \o Distinct(Tail(s), seen \cup { Head(s) })

\* {"$round": [{"$divide": ["$distance_in_meter", 1000]}, 2]}, in hundredths
\* of a km ($round rounds halves to the even neighbour)
RoundHundredths(meters) ==
    LET q == meters \div 10
        r == meters % 10
    IN  IF r > 5 \/ (r = 5 /\ q % 2 = 1) THEN q + 1 ELSE q

\* one aggregation stage applied to the documents that reach it
Stage(docs, st) ==
    CASE st.op = "$geoNear" ->
            LET near == SelectSeqIdx(docs,
                          { i \in 1..Len(docs) : /\ "dist" \in DOMAIN docs[i]
                                                  /\ docs[i].dist <= st.maxDistance }, 1)
                keyed == [ i \in 1..Len(near) |->
                             << near[i].dist,
                                With(near[i], st.distanceField, near[i].dist) >> ]
            IN  Values(SortPairs(keyed, FALSE, << >>))
      [] st.op = "$match" ->
            SelectSeqIdx(docs, { i \in 1..Len(docs) : Matches(docs[i], st.cond) }, 1)
      [] st.op = "$group" ->
            Distinct([ i \in 1..Len(docs) |->
                         Project(docs[i], { "store_id", "platforms" }) ], {})
      [] st.op = "$addFields" ->
            [ i \in 1..Len(docs) |-> With(docs[i], "text_score", Score(docs[i])) ]
      [] st.op = "$project" ->
            [ i \in 1..Len(docs) |->
                LET kept == IF st.km
                            THEN With(Project(docs[i], st.fields),
                                      "distance_in_km",
                                      RoundHundredths(docs[i].distance_in_meter))
                            ELSE Project(docs[i], st.fields)
                IN  IF "copy" \in DOMAIN st /\ st.copy[2] \in DOMAIN docs[i]
                    THEN With(kept, st.copy[1], docs[i][st.copy[2]])
                    ELSE kept ]
      [] st.op = "$sort" ->
            Values(SortPairs([ i \in 1..Len(docs) |-> << docs[i].text_score, docs[i] >> ],
                             TRUE, << >>))
      [] st.op = "$limit" ->
            SubSeq(docs, 1, IF st.n < Len(docs) THEN st.n ELSE Len(docs))

RECURSIVE RunPipeline(_, _)
RunPipeline(docs, pipeline) ==
    IF pipeline = << >> THEN docs
    ELSE RunPipeline(Stage(docs, Head(pipeline)), Tail(pipeline))

\* the MongoDriver object the operations are called on: the one registered
\* in the application's container

\* get_collection, the first statement of aggregate and of every insert,
\* update and delete method (mongo.py:186-215, 455): _ensure_initialized
\* raises RuntimeError on a driver that is not initialized, get_database
\* raises ValueError when neither the call nor the driver names a database;
\* Null when it returns the collection
DriverError ==
    IF ~IsInitialized(mongo_drv[1]) THEN "RuntimeError"
    ELSE IF ~mongo_drv[1].db_name THEN "ValueError"
    ELSE Null

\* MongoDriver.aggregate: the documents the store returns for a pipeline
Aggregate(collection_name, pipeline) ==
    RunPipeline(IF collection_name = "store" THEN db_store ELSE db_item, pipeline)

(* ----------------------------- find_drinks --------------------------- *)
\* the price floor of _find_drinks_from_stores (mongo.py:1149)
MinPrice == 20

\* the store pipeline of _find_qualifying_stores (mongo.py:1077-1123)
QualifyingStoresPipeline(r) ==
    << BuildGeospatialFilter(MaxDistanceKm(r.distance_range)),
       Match(BuildStoreFilters(r.platform, r.rating_range, r.review_count_range)) >>
    \o (IF r.brands # << >> THEN << Match(BrandConditions(r.brands)) >> ELSE << >>)
    \o << [ op |-> "$project", km |-> TRUE,
            fields |-> { "store_id", "name", "brand", "address", "platform",
                         "rating", "review_count", "cuisines", "source_url",
                         "distance_in_meter" } ] >>

\* mutant: the price floor is matched before the text search
DrinksPipelinePriceFirst(stores, r) ==
    << Match(<< [ field |-> "price", gte |-> MinPrice ] >>) >>
    \o (IF r.drink_tags # << >>
        THEN << Match(BuildDrinkTagsFilter(r.drink_tags)) >> ELSE << >>)
    \o << Match(StoreConditions(stores)) >>
    \o (IF r.drink_tags # << >> THEN << [ op |-> "$addFields" ] >> ELSE << >>)
    \o << [ op |-> "$project", km |-> FALSE,
            fields |-> { "item_id", "name", "description", "price", "image_url",
                         "category", "is_popular", "options", "store_id",
                         "platforms" }
                       \cup (IF r.drink_tags # << >> THEN { "text_score" } ELSE {}) ] >>
    \o (IF r.drink_tags # << >> THEN << [ op |-> "$sort" ] >> ELSE << >>)
    \o (IF r.limit # 0 THEN << [ op |-> "$limit", n |-> r.limit ] >> ELSE << >>)

\* the menu_item pipeline of _find_drinks_from_stores (mongo.py:1136-1185)
DrinksPipeline(stores, r) ==
    (IF r.drink_tags # << >>
     THEN << Match(BuildDrinkTagsFilter(r.drink_tags)) >> ELSE << >>)
    \o << Match(<< [ field |-> "price", gte |-> MinPrice ] >>) >>
    \o << Match(StoreConditions(stores)) >>
    \o (IF r.drink_tags # << >> THEN << [ op |-> "$addFields" ] >> ELSE << >>)
    \o << [ op |-> "$project", km |-> FALSE,
            fields |-> { "item_id", "name", "description", "price", "image_url",
                         "category", "is_popular", "options", "store_id",
                         "platforms" }
                       \cup (IF r.drink_tags # << >> THEN { "text_score" } ELSE {}) ] >>
    \o (IF r.drink_tags # << >> THEN << [ op |-> "$sort" ] >> ELSE << >>)
    \o (IF r.limit # 0 THEN << [ op |-> "$limit", n |-> r.limit ] >> ELSE << >>)

\* the key of store_index for a store or a menu item (mongo.py:1193, 1200)
IndexKey(doc) == << doc.store_id, Get(doc, "platforms") >>

\* store_index.get(key): the last store stored under the key; 0 when absent
StoreIndexGet(stores, key) ==
    LET idx == { i \in 1..Len(stores) : IndexKey(stores[i]) = key }
    IN  IF idx = {} THEN 0 ELSE CHOOSE i \in idx : \A j \in idx : j <= i

\* the store fields attached to a menu item (mongo.py:1203-1209)
AttachStore(item, store) ==
    With(With(With(With(item,
        "platform", IF "platform" \in DOMAIN item THEN item.platform
                    ELSE Get(store, "platform")),
        "store_name", Get(store, "name")),
        "store_url", Get(store, "source_url")),
        "brand_name", Get(store, "brand"))

RECURSIVE JoinDrinks(_, _)
\* the loop over menu_items (mongo.py:1197-1211)
JoinDrinks(items, stores) ==
    IF items = << >> THEN << >>
    ELSE LET i == StoreIndexGet(stores, IndexKey(Head(items)))
         IN  (IF i # 0 THEN << AttachStore(Head(items), stores[i]) >> ELSE << >>)
             \o JoinDrinks(Tail(items), stores)

\* menu_items after the loop: it writes the store fields into the documents
\* of the list itself, so the items that found their store hold them and
\* the others are as the query returned them (mongo.py:1197-1211)
ItemsAfterJoin(items, stores) ==
    [ k \in 1..Len(items) |->
        LET i == StoreIndexGet(stores, IndexKey(items[k]))
        IN  IF i # 0 THEN AttachStore(items[k], stores[i]) ELSE items[k] ]

\* mutant: the drinks are sorted by ascending text_score
SortDrinksAscending(drinks, r) ==
    IF r.drink_tags # << >>
    THEN Values(SortPairs([ i \in 1..Len(drinks) |->
                              << drinks[i].text_score, drinks[i] >> ], FALSE, << >>))
    ELSE drinks

\* result.sort(key=text_score, reverse=True) if drink_tags (mongo.py:1212)
SortDrinks(drinks, r) ==
    IF r.drink_tags # << >>
    THEN Values(SortPairs([ i \in 1..Len(drinks) |->
                              << drinks[i].text_score, drinks[i] >> ], TRUE, << >>))
    ELSE drinks

\* mutant: the empty short cut of find_drinks is never taken
NoQualifyingStoresNever(qualifying_stores) == FALSE

\* "if not qualifying_stores: return []" (mongo.py:1055-1056)
NoQualifyingStores(qualifying_stores) == qualifying_stores = << >>

\* MongoDriver.aggregate up to its first suspension (mongo.py:454-456):
\* get_collection refuses a driver that is not initialized or has no
\* database name, and the error leaves the operation; otherwise the
\* pipeline is sent and the operation, now in phase pc, waits for the
\* cursor
IssueQuery(pc, collection_name, pipeline) ==
    IF DriverError = Null
    THEN /\ queries' = Append(queries, << collection_name, pipeline >>)
         /\ qpc' = pc
         /\ q_wait' = "aggregate"
         /\ UNCHANGED q_err
    ELSE /\ qpc' = "raised"
         /\ q_wait' = "none"
         /\ q_err' = DriverError
         /\ UNCHANGED queries

\* the operation returns a list to its caller
ReturnList(list) ==
    /\ qpc' = "done"
    /\ q_wait' = "none"
    /\ result' = list
    /\ UNCHANGED << queries, q_err >>

\* find_drinks is called and runs to its first suspension, in the store
\* query of _find_qualifying_stores (mongo.py:991-1054, 1063-1124, 454-456)
FindDrinks ==
    /\ req.op = "find_drinks"
    /\ qpc = "start"
    /\ q_wait = "none"
    /\ IssueQuery("start", "store", QualifyingStoresPipeline(req))
    /\ UNCHANGED << db_store, db_item, req, q_cursor, q_pairs, q_stores, q_items,
                    result, writes, w_call, w_ret, w_err, cvars >>

\* "cursor = await collection.aggregate(pipeline)" returns (mongo.py:456):
\* the server has run the pipeline on the collection as it is now
AggregateAnswered ==
    /\ q_wait = "aggregate"
    /\ q_cursor' = Aggregate(queries[Len(queries)][1], queries[Len(queries)][2])
    /\ q_wait' = "to_list"
    /\ UNCHANGED << db_store, db_item, req, qpc, queries, q_pairs, q_stores,
                    q_items, result, q_err, writes, w_call, w_ret, w_err, cvars >>

\* find_drinks, phase 1: to_list of the store query returns, then the
\* empty short cut or the menu_item query of _find_drinks_from_stores, up
\* to its first suspension (mongo.py:457-462, 1055-1061, 1126-1188)
FindDrinksPhase1 ==
    /\ req.op = "find_drinks"
    /\ qpc = "start"
    /\ q_wait = "to_list"
    /\ q_stores' = q_cursor
    /\ q_cursor' = << >>
    /\ IF NoQualifyingStores(q_cursor)
       THEN ReturnList(<< >>)
       ELSE /\ IssueQuery("drinks", "menu_item", DrinksPipeline(q_cursor, req))
            /\ UNCHANGED result
    /\ UNCHANGED << db_store, db_item, req, q_pairs, q_items, writes, w_call, w_ret, w_err,
                    cvars >>

\* find_drinks, phase 2: to_list of the menu_item query returns, then the
\* join in memory (mongo.py:457-462, 1188-1213)
FindDrinksPhase2 ==
    /\ req.op = "find_drinks"
    /\ qpc = "drinks"
    /\ q_wait = "to_list"
    /\ q_items' = ItemsAfterJoin(q_cursor, q_stores)
    /\ q_cursor' = << >>
    /\ ReturnList(SortDrinks(JoinDrinks(q_cursor, q_stores), req))
    /\ UNCHANGED << db_store, db_item, req, q_pairs, q_stores, writes, w_call, w_ret, w_err,
                    cvars >>

(* --------------------- find_drink_stores_with_menu -------------------- *)
\* phase 1 of _find_stores_with_drink_tags: menu_pipeline (mongo.py:624-637)
MatchingStoresPipeline(r) ==
    << Match(BuildDrinkTagsFilter(r.drink_tags)) >>
    \o (IF r.platform # Null
        THEN << Match(<< [ field |-> "platforms", eq |-> r.platform ] >>) >>
        ELSE << >>)
    \o << [ op |-> "$group" ],
          [ op |-> "$project", km |-> FALSE, fields |-> { "store_id", "platforms" } ] >>

StoreProjection ==
    [ op |-> "$project", km |-> TRUE,
      fields |-> { "store_id", "name", "address", "platforms", "rating",
                   "review_count", "cuisines", "distance_in_meter" } ]

\* phase 2 of _find_stores_with_drink_tags: store_pipeline (mongo.py:645-699)
TaggedStoresPipeline(matching_stores, r) ==
    << BuildGeospatialFilter(MaxDistanceKm(r.distance_range)),
       Match(BuildStoreFilters(r.platform, r.rating_range, r.review_count_range)),
       Match(StoreConditions(matching_stores)) >>
    \o (IF r.brands # << >> THEN << Match(BrandConditions(r.brands)) >> ELSE << >>)
    \o << StoreProjection >>

\* the pipeline of _find_stores_without_drink_filter (mongo.py:722-765)
PlainStoresPipeline(r) ==
    << BuildGeospatialFilter(MaxDistanceKm(r.distance_range)),
       Match(BuildStoreFilters(r.platform, r.rating_range, r.review_count_range)) >>
    \o (IF r.brands # << >> THEN << Match(BrandConditions(r.brands)) >> ELSE << >>)
    \o << StoreProjection >>

\* menu_pipeline of _join_menu_data (mongo.py:896-955)
MenuPipeline(stores, drink_tags) ==
    IF drink_tags # << >>
    THEN << Match(BuildDrinkTagsFilter(drink_tags)),
            Match(StoreConditions(stores)),
            [ op |-> "$addFields" ],
            [ op |-> "$project", km |-> FALSE,
              fields |-> { "item_id", "store_id", "name", "category",
                           "description", "price", "is_popular", "options",
                           "text_score" } ],
            [ op |-> "$sort" ] >>
    ELSE << Match(StoreConditions(stores)),
            [ op |-> "$project", km |-> FALSE,
              fields |-> { "item_id", "store_id", "name", "category",
                           "description", "price", "is_popular", "options" } ] >>

\* menu_index.get(store_id, []) (mongo.py:960-969, 976)
MenuOf(menu_items, store_id) ==
    SelectSeqIdx(menu_items,
                 { i \in 1..Len(menu_items) : menu_items[i].store_id = store_id }, 1)

\* store.pop(f, None)
Without(doc, f) == [ g \in (DOMAIN doc \ { f }) |-> doc[g] ]

\* mutant: the stores keep the order of the store query
RankByHitsUnsorted(copies) == copies

\* mutant: a descending sort that reverses the order of equal hit counts
RankByHitsTiesReversed(copies) ==
    Values(SortPairs([ i \in 1..Len(copies) |->
                         LET c == copies[Len(copies) + 1 - i]
                         IN  << IF "hit_count" \in DOMAIN c
                                THEN c.hit_count ELSE 0, c >> ],
                     TRUE, << >>))

\* result.sort(key=lambda x: x.get("hit_count", 0), reverse=True)
\* (mongo.py:984)
RankByHits(copies) ==
    Values(SortPairs([ i \in 1..Len(copies) |->
                         << IF "hit_count" \in DOMAIN copies[i]
                            THEN copies[i].hit_count ELSE 0, copies[i] >> ],
                     TRUE, << >>))

\* the join and ranking of _join_menu_data (mongo.py:959-989)
JoinMenu(stores, menu_items, drink_tags) ==
    LET copies == [ i \in 1..Len(stores) |->
                      LET menu == MenuOf(menu_items, stores[i].store_id)
                          withMenu == With(stores[i], "menu", menu)
                      IN  IF drink_tags # << >>
                          THEN With(withMenu, "hit_count", Len(menu))
                          ELSE withMenu ]
    IN  IF drink_tags # << >>
        THEN LET ranked == RankByHits(copies)
             IN  [ i \in 1..Len(ranked) |-> Without(ranked[i], "hit_count") ]
        ELSE copies

\* mutant: the empty short cut after phase 1 is never taken
NoMatchingStoresNever(matching_stores) == FALSE

\* "if not matching_stores: return []" (mongo.py:642-643)
NoMatchingStores(matching_stores) == matching_stores = << >>

\* find_drink_stores_with_menu is called and runs to its first
\* suspension: in the menu_item query of _find_stores_with_drink_tags when
\* tags are given, in the store query of _find_stores_without_drink_filter
\* otherwise (mongo.py:553-608, 610-638, 708-767, 454-456)
FindDrinkStoresWithMenu ==
    /\ req.op = "find_stores"
    /\ qpc = "start"
    /\ q_wait = "none"
    /\ IF req.drink_tags # << >>
       THEN IssueQuery("start", "menu_item", MatchingStoresPipeline(req))
       ELSE IssueQuery("start", "store", PlainStoresPipeline(req))
    /\ UNCHANGED << db_store, db_item, req, q_cursor, q_pairs, q_stores, q_items,
                    result, writes, w_call, w_ret, w_err, cvars >>

\* _find_stores_with_drink_tags, phase 1: to_list of the menu_item query
\* returns, then the empty short cut or the store query, up to its first
\* suspension (mongo.py:457-462, 638-700)
FindStoresTaggedPhase1 ==
    /\ req.op = "find_stores"
    /\ req.drink_tags # << >>
    /\ qpc = "start"
    /\ q_wait = "to_list"
    /\ q_pairs' = q_cursor
    /\ q_cursor' = << >>
    /\ IF NoMatchingStores(q_cursor)
       THEN ReturnList(<< >>)
       ELSE /\ IssueQuery("stores", "store", TaggedStoresPipeline(q_cursor, req))
            /\ UNCHANGED result
    /\ UNCHANGED << db_store, db_item, req, q_stores, q_items, writes, w_call, w_ret, w_err,
                    cvars >>

\* the stores of a store query are handed to _join_menu_data, which runs
\* to the first suspension of its menu_item query; without stores the
\* operation returns the empty list (mongo.py:702-706, 769-773, 879-957)
StoresToJoin(stores) ==
    IF stores = << >>
    THEN ReturnList(<< >>)
    ELSE /\ IssueQuery("join", "menu_item", MenuPipeline(stores, req.drink_tags))
         /\ UNCHANGED result

\* _find_stores_with_drink_tags, phase 2: to_list of the store query
\* returns (mongo.py:457-462, 700-706)
FindStoresTaggedPhase2 ==
    /\ req.op = "find_stores"
    /\ qpc = "stores"
    /\ q_wait = "to_list"
    /\ q_stores' = q_cursor
    /\ q_cursor' = << >>
    /\ StoresToJoin(q_cursor)
    /\ UNCHANGED << db_store, db_item, req, q_pairs, q_items, writes, w_call, w_ret, w_err,
                    cvars >>

\* _find_stores_without_drink_filter: to_list of the store query returns
\* (mongo.py:457-462, 767-773)
FindStoresPlain ==
    /\ req.op = "find_stores"
    /\ req.drink_tags = << >>
    /\ qpc = "start"
    /\ q_wait = "to_list"
    /\ q_stores' = q_cursor
    /\ q_cursor' = << >>
    /\ StoresToJoin(q_cursor)
    /\ UNCHANGED << db_store, db_item, req, q_pairs, q_items, writes, w_call, w_ret, w_err,
                    cvars >>

\* mutant: menu and hit_count are set on the caller's store documents
StoresAfterJoinInPlace(stores, menu_items, drink_tags) ==
    [ i \in 1..Len(stores) |->
        LET withMenu == With(stores[i], "menu", MenuOf(menu_items, stores[i].store_id))
        IN  IF drink_tags # << >>
            THEN With(withMenu, "hit_count", Len(withMenu.menu)) ELSE withMenu ]

\* the caller's list of stores after _join_menu_data: the loop writes to
\* "store_copy = store.copy()", never to the documents of the list
\* (mongo.py:973-980)
StoresAfterJoin(stores, menu_items, drink_tags) == stores

\* _join_menu_data: to_list of the menu_item query returns, then the join
\* in memory (mongo.py:457-462, 957-989)
JoinMenuData ==
    /\ req.op = "find_stores"
    /\ qpc = "join"
    /\ q_wait = "to_list"
    /\ q_items' = q_cursor
    /\ q_cursor' = << >>
    /\ ReturnList(JoinMenu(q_stores, q_cursor, req.drink_tags))
    /\ q_stores' = StoresAfterJoin(q_stores, q_cursor, req.drink_tags)
    /\ UNCHANGED << db_store, db_item, req, q_pairs, writes, w_call, w_ret, w_err, cvars >>

(* ------------- find_nearby_stores and search_menu_items --------------- *)
\* the pipeline of find_nearby_stores (mongo.py:795-812); "distance_km" is
\* projected from "$distance_in_km", a field no stage before it sets
NearbyStoresPipeline(r) ==
    << BuildGeospatialFilter(r.radius_km),
       [ op |-> "$project", km |-> FALSE,
         fields |-> { "store_id", "name", "address", "platforms", "rating",
                      "cuisines" },
         copy |-> << "distance_km", "distance_in_km" >> ] >>
    \o (IF r.limit # 0 THEN << [ op |-> "$limit", n |-> r.limit ] >> ELSE << >>)

\* the pipeline of search_menu_items (mongo.py:836-875)
SearchMenuPipeline(r) ==
    << Match(<< [ field |-> "$expr",
                  all |-> << [ fn |-> "$regexMatch", input |-> "name",
                               regex |-> r.search_term ] >>
                          \o (IF r.store_ids # NoRange
                              THEN << [ fn |-> "$in", input |-> "store_id",
                                        values |-> r.store_ids ] >>
                              ELSE << >>)
                          \o (IF r.platform # Null
                              THEN << [ fn |-> "$eq", input |-> "platforms",
                                        value |-> r.platform ] >>
                              ELSE << >>) ] >>),
       [ op |-> "$project", km |-> FALSE,
         fields |-> { "item_id", "store_id", "platforms", "name", "category",
                      "description", "price", "is_popular" } ] >>
    \o (IF r.limit # 0 THEN << [ op |-> "$limit", n |-> r.limit ] >> ELSE << >>)

\* find_nearby_stores is called and runs to the first suspension of its
\* store query (mongo.py:775-814, 454-456)
FindNearbyStores ==
    /\ req.op = "find_nearby_stores"
    /\ qpc = "start"
    /\ q_wait = "none"
    /\ IssueQuery("start", "store", NearbyStoresPipeline(req))
    /\ UNCHANGED << db_store, db_item, req, q_cursor, q_pairs, q_stores, q_items,
                    result, writes, w_call, w_ret, w_err, cvars >>

\* search_menu_items is called and runs to the first suspension of its
\* menu_item query (mongo.py:816-877, 454-456)
SearchMenuItems ==
    /\ req.op = "search_menu_items"
    /\ qpc = "start"
    /\ q_wait = "none"
    /\ IssueQuery("start", "menu_item", SearchMenuPipeline(req))
    /\ UNCHANGED << db_store, db_item, req, q_cursor, q_pairs, q_stores, q_items,
                    result, writes, w_call, w_ret, w_err, cvars >>

\* "return await self.aggregate(...)" of find_nearby_stores and of
\* search_menu_items: to_list returns and the documents are the result
\* (mongo.py:457-462, 814, 877)
AggregateReturned ==
    /\ req.op \in { "find_nearby_stores", "search_menu_items" }
    /\ qpc = "start"
    /\ q_wait = "to_list"
    /\ q_cursor' = << >>
    /\ ReturnList(q_cursor)
    /\ UNCHANGED << db_store, db_item, req, q_pairs, q_stores, q_items, writes,
                    w_call, w_ret, w_err, cvars >>

(* ------------------- insert, update and delete ------------------------ *)
\* number of insert, update and delete calls
MaxWrites == 1

\* the collections written, with the documents inserted (a new store near
\* the query point, a menu item with no more than its ids and price, and a
\* menu item of store s3 that the text search matches), the filters and the
\* "$set" updates used
NewDocuments(coll) ==
    IF coll = "store"
    THEN << With(With(With(With(StoreCatalogue[1],
                "store_id", "s9"), "name", "Cama E"),
                "source_url", "https://u/s9"), "dist", 500) >>
    ELSE << Project(With(With(ItemCatalogue[1], "item_id", "i9"), "price", 99),
                    { "item_id", "store_id", "price" }),
            With(With(With(ItemCatalogue[4],
                "item_id", "i10"), "price", 60), "score", 3) >>

StoreFilter == << [ field |-> "store_id", eq |-> "s1" ] >>

SetFields(coll) ==
    IF coll = "store" THEN [ field |-> "brand", value |-> "louisa" ]
    ELSE [ field |-> "price", value |-> 10 ]

\* the documents of a collection
Documents(coll) == IF coll = "store" THEN db_store ELSE db_item

\* the positions of the documents a filter selects: all of them, or the
\* first one in natural order (update_one, delete_one)
Selected(docs, filter, many) ==
    IF many \/ \A i \in 1..Len(docs) : ~Matches(docs[i], filter)
    THEN { i \in 1..Len(docs) : Matches(docs[i], filter) }
    ELSE { CHOOSE i \in 1..Len(docs) :
             /\ Matches(docs[i], filter)
             /\ \A j \in 1..(i - 1) : ~Matches(docs[j], filter) }

\* a collection after {"$set": {field: value}} on the selected documents
Updated(docs, filter, set, many) ==
    [ i \in 1..Len(docs) |->
        IF i \in Selected(docs, filter, many)
        THEN With(docs[i], set.field, set.value) ELSE docs[i] ]

\* modified_count: the selected documents the update changed
ModifiedCount(docs, filter, set, many) ==
    Cardinality({ i \in Selected(docs, filter, many) :
                    With(docs[i], set.field, set.value) # docs[i] })

\* a collection after the selected documents are deleted
Deleted(docs, filter, many) ==
    SelectSeqIdx(docs, (1..Len(docs)) \ Selected(docs, filter, many), 1)

\* no insert, update or delete method is suspended
NoWrite == [ op |-> "none" ]

\* an insert, update or delete method from its call to its only
\* suspension, "await collection.<command>": get_collection refuses a
\* driver that is not initialized or has no database name, and the error
\* leaves the method; otherwise the command is sent and the method waits for
\* its result (mongo.py:236-237, 256-257, 339-340, 365-366, 387-388,
\* 409-410)
WriteCall(call) ==
    /\ writes < MaxWrites
    /\ w_call = NoWrite
    /\ writes' = writes + 1
    /\ IF DriverError = Null
       THEN w_call' = call /\ w_err' = Null
       ELSE w_err' = DriverError /\ UNCHANGED w_call
    /\ UNCHANGED << db_store, db_item, w_ret, req, qpc, q_wait, q_cursor,
                    queries, q_pairs, q_stores, q_items, result, q_err, cvars >>

\* insert_one (mongo.py:220-238)
InsertOne(coll, document) ==
    WriteCall([ op |-> "insert_one", coll |-> coll,
                documents |-> << document >> ])

\* insert_many (mongo.py:240-258)
InsertMany(coll, documents) ==
    WriteCall([ op |-> "insert_many", coll |-> coll, documents |-> documents ])

\* update_one with {"$set": {field: value}}, upsert off (mongo.py:317-341)
UpdateOne(coll, filter, set) ==
    WriteCall([ op |-> "update_one", coll |-> coll, filter |-> filter,
                set |-> set ])

\* update_many with {"$set": {field: value}}, upsert off (mongo.py:343-367)
UpdateMany(coll, filter, set) ==
    WriteCall([ op |-> "update_many", coll |-> coll, filter |-> filter,
                set |-> set ])

\* delete_one (mongo.py:369-389)
DeleteOne(coll, filter) ==
    WriteCall([ op |-> "delete_one", coll |-> coll, filter |-> filter ])

\* delete_many (mongo.py:391-411)
DeleteMany(coll, filter) ==
    WriteCall([ op |-> "delete_many", coll |-> coll, filter |-> filter ])

\* a collection after the server ran the command of a call on it
Written(docs, call) ==
    CASE call.op \in { "insert_one", "insert_many" } -> docs \o call.documents
      [] call.op \in { "update_one", "update_many" } ->
            Updated(docs, call.filter, call.set, call.op = "update_many")
      [] call.op \in { "delete_one", "delete_many" } ->
            Deleted(docs, call.filter, call.op = "delete_many")

\* what the method returns: the number of inserted ids, modified_count or
\* deleted_count (mongo.py:238, 258, 341, 367, 389, 411)
WriteResult(docs, call) ==
    CASE call.op \in { "insert_one", "insert_many" } -> Len(call.documents)
      [] call.op \in { "update_one", "update_many" } ->
            ModifiedCount(docs, call.filter, call.set, call.op = "update_many")
      [] call.op \in { "delete_one", "delete_many" } ->
            Cardinality(Selected(docs, call.filter, call.op = "delete_many"))

\* "await collection.<command>" returns: the server has run the command on
\* the collection as it is now, and the method returns to its caller
WriteAnswered ==
    /\ w_call # NoWrite
    /\ db_store' = IF w_call.coll = "store" THEN Written(db_store, w_call)
                   ELSE db_store
    /\ db_item' = IF w_call.coll = "menu_item" THEN Written(db_item, w_call)
                  ELSE db_item
    /\ w_ret' = WriteResult(Documents(w_call.coll), w_call)
    /\ w_call' = NoWrite
    /\ UNCHANGED << writes, w_err, req, qpc, q_wait, q_cursor, queries,
                    q_pairs, q_stores, q_items, result, q_err, cvars >>

(* ------------------------- a query that fails ------------------------- *)
\* whether the operation is suspended in MongoDriver.aggregate, at
\* "await collection.aggregate" or at "await cursor.to_list"
\* (mongo.py:456-457)
AtQuery == q_wait \in { "aggregate", "to_list" }

\* mutant: the failure is swallowed and the operation returns the empty list
QueryFailsSwallowed(e) ==
    /\ AtQuery
    /\ qpc' = "done"
    /\ q_wait' = "none"
    /\ q_cursor' = << >>
    /\ result' = << >>
    /\ queries' = [ queries EXCEPT ![Len(queries)] = @ \o << e >> ]
    /\ UNCHANGED << db_store, db_item, req, q_pairs, q_stores, q_items, q_err,
                    writes, w_call, w_ret, w_err, cvars >>

\* the await the operation is suspended at raises e: no method on the path
\* catches it (mongo.py:436-462, 638, 700, 767, 957, 1044, 1059, 1124,
\* 1188), the operation ends there
QueryFails(e) ==
    /\ AtQuery
    /\ qpc' = "raised"
    /\ q_wait' = "none"
    /\ q_cursor' = << >>
    /\ q_err' = e
    /\ queries' = [ queries EXCEPT ![Len(queries)] = @ \o << e >> ]
    /\ UNCHANGED << db_store, db_item, req, q_pairs, q_stores, q_items, result,
                    writes, w_call, w_ret, w_err, cvars >>

(* -------------------------- query engine: Init ------------------------ *)
\* the documents of a catalogue at the indices in idx; legacy documents
\* carry their platform under "platforms" as well (the field the pipelines
\* of mongo.py read)
Collection(catalogue, idx, legacy) ==
    LET docs == SelectSeqIdx(catalogue, idx, 1)
    IN  [ i \in 1..Len(docs) |->
            IF legacy THEN With(docs[i], "platforms", docs[i].platform)
            ELSE docs[i] ]

\* the calls of the four query operations: request arguments drawn from
\* the choices below (schema ListStorePayload for the first two)
Requests ==
    LET TagChoices == { << >>, << "tea", "milk" >> }
        BrandChoices == { << >>, << "cama" >> }
        PlatformChoices == { Null, "ubereats", "foodpanda" }
        RatingChoices == { NoRange, << 4, 5 >> }
        ReviewChoices == { NoRange, << 10, 100 >> }
        DistanceChoices == { NoRange, << 0, 3000 >> }
        LimitChoices == { 0, 1 }
        RadiusChoices == { 5, 3 }
        TermChoices == { "tea", "Latte" }
        StoreIdChoices == { NoRange, << "s2" >> }
    IN
    { [ op |-> "find_drinks", drink_tags |-> t, brands |-> b, platform |-> p,
        rating_range |-> ra, review_count_range |-> rc, distance_range |-> d,
        limit |-> l ] :
        t \in TagChoices, b \in BrandChoices, p \in PlatformChoices,
        ra \in RatingChoices, rc \in ReviewChoices, d \in DistanceChoices,
        l \in LimitChoices }
    \cup
    { [ op |-> "find_stores", drink_tags |-> t, brands |-> b, platform |-> p,
        rating_range |-> ra, review_count_range |-> rc, distance_range |-> d,
        limit |-> 0 ] :
        t \in TagChoices, b \in BrandChoices, p \in PlatformChoices,
        ra \in RatingChoices, rc \in ReviewChoices, d \in DistanceChoices }
    \cup
    { [ op |-> "find_nearby_stores", radius_km |-> k, limit |-> l ] :
        k \in RadiusChoices, l \in LimitChoices }
    \cup
    { [ op |-> "search_menu_items", search_term |-> w, store_ids |-> ids,
        platform |-> p, limit |-> l ] :
        w \in TermChoices, ids \in StoreIdChoices,
        p \in { Null, "ubereats" }, l \in LimitChoices }

\* no query operation is running (the container specifications)
InitQueryIdle ==
    /\ db_store = << >>
    /\ db_item = << >>
    /\ req = [ op |-> "none" ]
    /\ qpc = "idle"
    /\ q_wait = "none"
    /\ q_cursor = << >>
    /\ queries = << >>
    /\ q_pairs = << >>
    /\ q_stores = << >>
    /\ q_items = << >>
    /\ result = << >>
    /\ q_err = Null
    /\ writes = 0
    /\ w_call = NoWrite
    /\ w_ret = 0
    /\ w_err = Null

\* one query operation is about to run on the collections
InitQuery ==
    /\ \E legacy \in BOOLEAN :
         /\ db_store = Collection(StoreCatalogue, 1..Len(StoreCatalogue), legacy)
         /\ db_item = Collection(ItemCatalogue, 1..Len(ItemCatalogue), legacy)
    /\ req \in Requests
    /\ qpc = "start"
    /\ q_wait = "none"
    /\ q_cursor = << >>
    /\ queries = << >>
    /\ q_pairs = << >>
    /\ q_stores = << >>
    /\ q_items = << >>
    /\ result = << >>
    /\ q_err = Null
    /\ writes = 0
    /\ w_call = NoWrite
    /\ w_ret = 0
    /\ w_err = Null

(* ------------------------- specifications ----------------------------- *)
vars == << cvars, qvars >>

\* one container, with or without a shared state object, under every
\* operation of its public interface
Init ==
    /\ InitContainer
    /\ uses_state \in { [ c \in Cont |-> b ] : b \in BOOLEAN }
    /\ InitQueryIdle

Next ==
    \/ \E t \in Tasks, n \in CallNames : GetInstanceCall(t, 1, n)
    \/ \E t \in Tasks : GetInstanceWake(t)
    \/ \E t \in Tasks : InitializeOk(t)
    \/ \E t \in Tasks : InitializeFail(t)
    \/ \E t \in Tasks : CleanupCall(t, 1)
    \/ \E t \in Tasks : CleanupInvoke(t)
    \/ \E t \in Tasks, ok \in BOOLEAN :
          \E e \in task[t].running : CleanupEnd(t, e, ok)
    \/ \E t \in Tasks : CleanupFinish(t)
    \/ \E t \in Tasks : HealthCall(t, 1)
    \/ \E t \in Tasks, o \in { "true", "false", "raise" } : HealthChecked(t, o)
    \/ \E n \in RegNames : RegisterDriver(1, n)
    \/ \E t \in Tasks : Finish(t)

Spec == Init /\ [][Next]_vars

\* one container under concurrent get_instance calls alone, one call per task
NextGet ==
    \/ \E t \in Tasks, n \in CallNames : GetInstanceCall(t, 1, n)
    \/ \E t \in Tasks : GetInstanceWake(t)
    \/ \E t \in Tasks : InitializeOk(t)
    \/ \E t \in Tasks : InitializeFail(t)

SpecGet == Init /\ [][NextGet]_vars

\* the same when every initialize call terminates and the event loop runs
\* every coroutine that is ready
FairGet ==
    \A t \in Tasks :
        /\ WF_vars(GetInstanceWake(t))
        /\ WF_vars(InitializeOk(t) \/ InitializeFail(t))

SpecGetLive == Init /\ [][NextGet]_vars /\ FairGet

\* two containers constructed with the same app_state object, under
\* concurrent get_instance calls, one call per task; their config is
\* complete, or its mongo section lacks database and connection_string
InitShared ==
    /\ InitContainer
    /\ bad_cfg[1] \in { {}, { "mongo" } }
    /\ uses_state = [ c \in Cont |-> TRUE ]
    /\ InitQueryIdle

NextShared ==
    \/ \E t \in Tasks, c \in Cont, n \in DefaultNames : GetInstanceCall(t, c, n)
    \/ \E t \in Tasks : GetInstanceWake(t)
    \/ \E t \in Tasks : InitializeOk(t)
    \/ \E t \in Tasks : InitializeFail(t)

SpecShared == InitShared /\ [][NextShared]_vars

\* one container with app_state under register_driver and get_instance for
\* names whose slot attributes overlap
NextProbe ==
    \/ \E t \in Tasks, n \in RegNames : GetInstanceCall(t, 1, n)
    \/ \E t \in Tasks : GetInstanceWake(t)
    \/ \E t \in Tasks : InitializeOk(t)
    \/ \E t \in Tasks : InitializeFail(t)
    \/ \E n \in RegNames : RegisterDriver(1, n)
    \/ \E t \in Tasks : Finish(t)

SpecProbe == InitShared /\ [][NextProbe]_vars

\* one container under get_instance and cleanup_all
NextCleanup ==
    \/ \E t \in Tasks, n \in GetNames : GetInstanceCall(t, 1, n)
    \/ \E t \in Tasks : GetInstanceWake(t)
    \/ \E t \in Tasks : InitializeOk(t)
    \/ \E t \in Tasks : InitializeFail(t)
    \/ \E t \in Tasks : CleanupCall(t, 1)
    \/ \E t \in Tasks : CleanupInvoke(t)
    \/ \E t \in Tasks, ok \in BOOLEAN :
          \E e \in task[t].running : CleanupEnd(t, e, ok)
    \/ \E t \in Tasks : CleanupFinish(t)
    \/ \E t \in Tasks : Finish(t)

SpecCleanup == Init /\ [][NextCleanup]_vars

\* one container under get_instance, cleanup_all and health_check_all
NextHealth ==
    \/ \E t \in Tasks, n \in GetNames \cup { "storage" } :
          GetInstanceCall(t, 1, n)
    \/ \E t \in Tasks : GetInstanceWake(t)
    \/ \E t \in Tasks : InitializeOk(t)
    \/ \E t \in Tasks : InitializeFail(t)
    \/ \E t \in Tasks : CleanupCall(t, 1)
    \/ \E t \in Tasks : CleanupInvoke(t)
    \/ \E t \in Tasks, ok \in BOOLEAN :
          \E e \in task[t].running : CleanupEnd(t, e, ok)
    \/ \E t \in Tasks : CleanupFinish(t)
    \/ \E t \in Tasks : HealthCall(t, 1)
    \/ \E t \in Tasks, o \in { "true", "false", "raise" } : HealthChecked(t, o)
    \/ \E t \in Tasks : Finish(t)

SpecHealth == Init /\ [][NextHealth]_vars

\* one query operation of MongoDriver on some contents of the collections
InitEngine ==
    /\ \/ InitContainer /\ bad_cfg[1] = {}
       \/ InitContainerStarted
    /\ uses_state = [ c \in Cont |-> TRUE ]
    /\ InitQuery

Writes ==
    \/ \E coll \in { "store", "menu_item" } : InsertOne(coll, NewDocuments(coll)[1])
    \/ InsertMany("menu_item", NewDocuments("menu_item"))
    \/ \E f \in { << >>, StoreFilter } :
          UpdateOne("menu_item", f, SetFields("menu_item"))
    \/ UpdateMany("store", << >>, SetFields("store"))
    \/ \E f \in { << >>, StoreFilter } : DeleteOne("menu_item", f)
    \/ \E coll \in { "store", "menu_item" } : DeleteMany(coll, << >>)
    \/ WriteAnswered

\* one operation, with the inserts, updates and deletes of other tasks
\* before it, after it and while it is suspended
NextQuery ==
    \/ FindDrinks
    \/ FindDrinkStoresWithMenu
    \/ AggregateAnswered
    \/ FindDrinksPhase1
    \/ FindDrinksPhase2
    \/ FindStoresTaggedPhase1
    \/ FindStoresTaggedPhase2
    \/ FindStoresPlain
    \/ JoinMenuData
    \/ FindNearbyStores
    \/ SearchMenuItems
    \/ AggregateReturned
    \/ Writes

SpecQuery == InitEngine /\ [][NextQuery]_vars

\* one operation on collections nobody writes, when the awaits of
\* aggregate may raise
NextQueryErr ==
    \/ FindDrinks
    \/ FindDrinkStoresWithMenu
    \/ AggregateAnswered
    \/ FindDrinksPhase1
    \/ FindDrinksPhase2
    \/ FindStoresTaggedPhase1
    \/ FindStoresTaggedPhase2
    \/ FindStoresPlain
    \/ JoinMenuData
    \/ FindNearbyStores
    \/ SearchMenuItems
    \/ AggregateReturned
    \/ \E e \in { "OperationFailure", "AutoReconnect" } : QueryFails(e)

SpecQueryErr == InitEngine /\ [][NextQueryErr]_vars

(* ------------------------ claims: the container ----------------------- *)
\* get_instance coroutines for name n on container c that have returned
Returned(c, n) ==
    { t \in Tasks : /\ task[t].op = "get" /\ task[t].c = c /\ task[t].name = n
                    /\ task[t].pc = "done" /\ task[t].err = "" }

\* get_instance coroutines for name n on container c whose initialize raised
InitFailed(c, n) ==
    { t \in Tasks : /\ task[t].op = "get" /\ task[t].c = c /\ task[t].name = n
                    /\ task[t].err = "InitError" }

\* C1: on one container, concurrent get_instance calls for one registered
\* name, with initialize succeeding, invoke initialize exactly once and all
\* return the same instance reference.
C1_SingleFlight ==
    \A n \in DefaultNames :
        InitFailed(1, n) = {} =>
            /\ init_calls[1][n] <= 1
            /\ \A t1, t2 \in Returned(1, n) : task[t1].ret = task[t2].ret
            /\ \A t \in Returned(1, n) :
                  task[t].ret # None /\ init_calls[1][n] = 1

\* C1 witness: a call has returned the instance while a second call for the
\* same name, issued during the initialization, has just been woken.
C1_Witness ==
    \E t1, t2 \in Tasks :
        /\ t1 \in Returned(1, "mongo")
        /\ task[t1].ret # None
        /\ task[t2].op = "get" /\ task[t2].name = "mongo"
        /\ task[t2].pc = "acquired"
        /\ init_calls[1]["mongo"] = 1

\* C2: when initialize raises inside get_instance(name) the error reaches
\* the caller, neither the local cache nor the shared slot holds an instance
\* for name afterwards, and the next get_instance(name) invokes initialize
\* again.
C2_FailedInitNotCached ==
    [][ \A t \in Tasks :
          /\ ( /\ task[t].pc = "initializing"
               /\ task'[t].pc = "done"
               /\ task'[t].ret = None )
             => /\ task'[t].err = "InitError"
                /\ ~InCache(task[t].c, task[t].name)'
                /\ GetFromAppState(task[t].c, task[t].name)' = None
          /\ ( /\ task[t].pc # "done"
               /\ task'[t].op = "get" /\ task'[t].pc = "done"
               /\ task'[t].err = "InitError" )
             => /\ task'[t].ret = None
                /\ \A i \in 1..Len(instances'[task'[t].c]) :
                      instances'[task'[t].c][i][1] # task'[t].name
                /\ uses_state[task'[t].c] =>
                      ProbeFrom(app_state', PossibleNames(task'[t].name), 1) = None
          /\ ( /\ task[t].op = "idle"
               /\ task'[t].op = "get"
               /\ InitFailed(task'[t].c, task'[t].name) # {}
               /\ \A u \in Tasks \ InitFailed(task'[t].c, task'[t].name) :
                     ~(task[u].op = "get" /\ task[u].name = task'[t].name) )
             => init_calls'[task'[t].c][task'[t].name]
                  = init_calls[task'[t].c][task'[t].name] + 1
      ]_vars

\* C2 witness: one call failed in initialize, a later call for the same
\* name is initializing again.
C2_Witness ==
    \E t1, t2 \in Tasks :
        /\ t1 \in InitFailed(1, "mongo")
        /\ task[t1].pc = "done"
        /\ task[t2].op = "get" /\ task[t2].name = "mongo"
        /\ task[t2].pc = "initializing"
        /\ init_calls[1]["mongo"] = 2
        /\ ~InCache(1, "mongo")

\* C3: two containers sharing one state object never initialize a name
\* twice in total, and both return the same instance reference.
C3_NoDuplicateAcrossContainers ==
    \A n \in DefaultNames :
        (InitFailed(1, n) \cup InitFailed(2, n) = {}) =>
            /\ init_calls[1][n] + init_calls[2][n] <= 1
            /\ \A t1, t2 \in Returned(1, n) \cup Returned(2, n) :
                  task[t1].ret = task[t2].ret

\* C4: cleanup_all invokes cleanup on every instance of the local cache, a
\* raising cleanup does not stop the others, it does not raise itself, and
\* the local cache is empty when it returns.
C4_CleanupAll ==
    [][ \A t \in Tasks :
          ( /\ task'[t].op = "cleanup"
            /\ task'[t].pc = "done"
            /\ task[t].pc # "done" )
          => /\ task'[t].err = ""
             /\ instances'[task'[t].c] = << >>
             /\ \A e \in task'[t].snap : e[2] \in cleaned'
      ]_vars

\* C4 witness: a finished cleanup_all over two cached instances, one of
\* whose cleanups raised and one of whose cleanups did not.
C4_Witness ==
    \E t \in Tasks :
        /\ task[t].op = "cleanup" /\ task[t].pc = "done"
        /\ Cardinality(task[t].snap) = 2
        /\ Cardinality(task[t].failed) = 1
        /\ \A e \in task[t].snap : e[2] \in cleaned
        /\ instances[1] = << >>

\* C5: health_check_all returns one boolean entry per cached instance, a
\* raising health_check gives false for that name only, and the call never
\* raises.
C5_HealthCheckAll ==
    \A t \in Tasks :
        (task[t].op = "health" /\ task[t].pc = "done")
        => /\ task[t].err = ""
           /\ { p[1] : p \in task[t].status } = task[t].snap
           /\ \A n \in task[t].failed : << n, FALSE >> \in task[t].status

\* C6: get_instance for an unregistered name fails with "not registered"
\* and changes nothing: no initialize, no lock, no cache or slot update.
C6_NotRegistered ==
    [][ \A t \in Tasks :
          ( /\ task[t].op = "idle"
            /\ task'[t].op = "get"
            /\ drivers[task'[t].c][task'[t].name] = 0 )
          => /\ task'[t].pc = "done"
             /\ task'[t].err = "ValueError"
             /\ task'[t].ret = None
             /\ UNCHANGED << instances, app_state, locked, waitq, init_calls,
                             next_inst, drivers, locks >>
      ]_vars

\* C6 witness: the call failed for a name that the shared slot has an
\* attribute for.
C6_Witness ==
    \E t \in Tasks :
        /\ task[t].op = "get" /\ task[t].pc = "done"
        /\ task[t].name = "driver_container"
        /\ task[t].err = "ValueError"
        /\ uses_state[1]
        /\ app_state["driver_container"] # None

\* C7: in a single container, whenever the local cache and the shared slot
\* both hold an instance for a name, they hold the same reference.
C7_OneLiveInstance ==
    \A n \in AllNames :
        (InCache(1, n) /\ GetFromAppState(1, n) # None)
        => CacheGet(1, n) = GetFromAppState(1, n)

(* ----------------------- claims: the query engine --------------------- *)
\* the $geoNear stages of the pipelines issued so far
GeoStages ==
    { st \in UNION { { queries[i][2][j] : j \in 1..Len(queries[i][2]) } :
                       i \in 1..Len(queries) } : st.op = "$geoNear" }

\* C8: the maximum distance handed to every $geoNear stage, in meters, is
\* the upper bound of the supplied distance_range (given in meters), and is
\* 5000 (5 km) when no distance_range is supplied; for find_drinks and for
\* both branches of find_drink_stores_with_menu.
C8_SearchRadius ==
    (req.op \in { "find_drinks", "find_stores" }) =>
        \A st \in GeoStages :
            st.maxDistance = (IF req.distance_range = NoRange THEN 5000
                              ELSE req.distance_range[2])

\* the document of db_item a returned drink was made from
ItemOf(drink) ==
    CHOOSE i \in 1..Len(db_item) : db_item[i].item_id = drink.item_id

\* the phase-1 stores with the store_id and the platform of a menu item
StoresOf(item) ==
    { i \in 1..Len(q_stores) :
        /\ q_stores[i].store_id = item.store_id
        /\ q_stores[i].platform = item.platform }

\* C9: every drink find_drinks returns comes from a menu item whose
\* (store_id, platform) is that of a phase-1 store, and its attached store
\* name, URL, brand and platform are those of that store, also when several
\* phase-1 stores share the store_id on different platforms. The
\* collections are those the operation read: no insert, update or delete
\* ran beside it (writes = 0).
C9_JoinCorrect ==
    (req.op = "find_drinks" /\ qpc = "done" /\ writes = 0) =>
        \A k \in 1..Len(result) :
            LET item == db_item[ItemOf(result[k])]
            IN  /\ StoresOf(item) # {}
                /\ \A i \in StoresOf(item) :
                      /\ result[k].store_name = q_stores[i].name
                      /\ result[k].store_url = q_stores[i].source_url
                      /\ result[k].brand_name = q_stores[i].brand
                      /\ result[k].platform = q_stores[i].platform

\* C10: when the phase-1 store query of find_drinks returned no store, no
\* query was issued against menu_item and the result is the empty list
\* (the operation is past phase 1 once it has left "start" without error).
C10_EmptyPhase1 ==
    (req.op = "find_drinks" /\ qpc \notin { "start", "raised" }
     /\ q_stores = << >>) =>
        /\ qpc = "done"
        /\ result = << >>
        /\ \A i \in 1..Len(queries) : queries[i][1] # "menu_item"

\* find_drinks has returned after a phase 1 that filtered out every store of
\* a non-empty store collection, with drinks priced above the floor stored
C10_Witness ==
    /\ req.op = "find_drinks"
    /\ qpc = "done"
    /\ Len(queries) = 1 /\ queries[1][1] = "store"
    /\ q_stores = << >>
    /\ db_store # << >>
    /\ \E i \in 1..Len(db_item) : db_item[i].price >= MinPrice

\* C11: when tags are supplied to find_drink_stores_with_menu, the returned
\* stores are ordered non-increasingly by the number of matched menu items
\* attached to each of them, and no returned store carries "hit_count".
C11_RankedByHits ==
    (req.op = "find_stores" /\ req.drink_tags # << >> /\ qpc = "done") =>
        /\ \A k \in 1..Len(result) : "hit_count" \notin DOMAIN result[k]
        /\ \A k \in 1..(Len(result) - 1) :
              Len(result[k].menu) >= Len(result[k + 1].menu)

\* the tagged operation has returned two stores, and the one the store query
\* returned first (the nearer one) has fewer matched items and comes second
C11_Witness ==
    /\ req.op = "find_stores" /\ req.drink_tags # << >> /\ qpc = "done"
    /\ Len(result) = 2 /\ Len(q_stores) = 2
    /\ result[1].store_id = q_stores[2].store_id
    /\ result[2].store_id = q_stores[1].store_id
    /\ Len(result[1].menu) = 2 /\ Len(result[2].menu) = 1

\* C12: find_drink_stores_with_menu with tags returns the empty list and
\* issues no further query when phase 1 finds no (store_id, platform) pair,
\* and returns the empty list without the menu query of the join when the
\* phase-2 store query returns no store.
C12_TaggedShortCuts ==
    (req.op = "find_stores" /\ req.drink_tags # << >>) =>
        /\ (qpc \notin { "start", "raised" } /\ q_pairs = << >>) =>
              (qpc = "done" /\ result = << >> /\ Len(queries) = 1)
        /\ (qpc \notin { "start", "stores", "raised" }
            /\ q_pairs # << >> /\ q_stores = << >>) =>
              (qpc = "done" /\ result = << >> /\ Len(queries) = 2)

\* the tagged operation has returned after a phase 1 that matched no item of
\* a non-empty menu_item collection, with stores in the store collection
C12_Witness ==
    /\ req.op = "find_stores" /\ req.drink_tags # << >> /\ qpc = "done"
    /\ q_pairs = << >>
    /\ Len(queries) = 1 /\ queries[1][1] = "menu_item"
    /\ db_item # << >> /\ db_store # << >>

\* menu_items of _find_drinks_from_stores: the items the menu_item query
\* returned, in its order, as the join left them
ReturnedItems == q_items

\* the position of a returned drink in the answer of the menu_item query
ReturnedAt(drink) ==
    CHOOSE i \in 1..Len(ReturnedItems) : ReturnedItems[i].item_id = drink.item_id

\* whether the sequence a is b with some of its elements left out
RECURSIVE IsSubsequence(_, _)
IsSubsequence(a, b) ==
    IF a = << >> THEN TRUE
    ELSE IF b = << >> THEN FALSE
    ELSE IF Head(a) = Head(b) THEN IsSubsequence(Tail(a), Tail(b))
    ELSE IsSubsequence(a, Tail(b))

\* C13: with tags the list find_drinks returns is sorted by descending text
\* relevance score of its items; without tags it keeps the order in which
\* the menu_item query returned the items, less the dropped orphans: the
\* returned drinks are the items of the query answer that found their
\* store, in the order of the answer.
C13_DrinkOrder ==
    (req.op = "find_drinks" /\ qpc = "done" /\ Len(queries) = 2) =>
        /\ \A k \in 1..Len(result) :
              \E i \in 1..Len(ReturnedItems) : ReturnedItems[i] = result[k]
        /\ req.drink_tags # << >> =>
              \A k \in 1..(Len(result) - 1) :
                  ReturnedItems[ReturnedAt(result[k])].text_score
                      >= ReturnedItems[ReturnedAt(result[k + 1])].text_score
        /\ req.drink_tags = << >> =>
              /\ IsSubsequence(result, ReturnedItems)
              /\ Len(result) =
                    Cardinality({ i \in 1..Len(ReturnedItems) :
                                    "store_name" \in DOMAIN ReturnedItems[i] })

\* find_drinks without tags has returned two drinks in the order of the
\* query answer, which holds before them items that found no store and
\* were dropped
C13_Witness ==
    /\ req.op = "find_drinks" /\ req.drink_tags = << >> /\ qpc = "done"
    /\ Len(result) = 2 /\ Len(ReturnedItems) > 2
    /\ "store_name" \notin DOMAIN ReturnedItems[1]
    /\ result[1] = ReturnedItems[Len(ReturnedItems) - 1]
    /\ result[2] = ReturnedItems[Len(ReturnedItems)]
    /\ result[1] # result[2]

\* whether a stage is a geo-nearest stage
IsGeoStage(st) == st.op = "$geoNear"

\* whether a stage is a $match on a full-text search
IsTextStage(st) ==
    /\ st.op = "$match"
    /\ \E i \in 1..Len(st.cond) : st.cond[i].field = "$text"

\* C14: in every pipeline issued, for every combination of the optional
\* filters, a geo-nearest stage is the first stage, a text-search stage is
\* the first stage (hence at most one), and no pipeline has both.
C14_StageOrder ==
    \A q \in 1..Len(queries) :
        LET pipeline == queries[q][2]
        IN  /\ \A j \in 1..Len(pipeline) :
                  (IsGeoStage(pipeline[j]) \/ IsTextStage(pipeline[j])) => j = 1
            /\ ~ (\E j, k \in 1..Len(pipeline) :
                      IsGeoStage(pipeline[j]) /\ IsTextStage(pipeline[k]))

\* find_drinks has issued both of its pipelines with every optional filter
\* supplied: the store pipeline has a geo stage, the menu_item one a text stage
C14_Witness ==
    /\ req.op = "find_drinks" /\ qpc = "done" /\ Len(queries) = 2
    /\ req.drink_tags # << >> /\ req.brands # << >> /\ req.platform # Null
    /\ req.rating_range # NoRange /\ req.review_count_range # NoRange
    /\ req.distance_range # NoRange /\ req.limit # 0
    /\ \E j \in 1..Len(queries[1][2]) : IsGeoStage(queries[1][2][j])
    /\ \E j \in 1..Len(queries[2][2]) : IsTextStage(queries[2][2][j])

\* the queries issued so far that failed
FailedQueries == { i \in 1..Len(queries) : Len(queries[i]) = 3 }

\* C15: within one operation every phase's query is issued at most once;
\* when a query fails the operation raises that error, the failed query is
\* the last one issued (no later phase, no retry), no result list is
\* returned, and nothing happens afterwards.
C15_QueryErrors ==
    /\ [](/\ Len(queries) <= (IF req.op \in { "find_nearby_stores",
                                              "search_menu_items" } THEN 1
                              ELSE IF req.op = "find_stores"
                                      /\ req.drink_tags # << >>
                              THEN 3 ELSE 2)
          /\ \A i, j \in 1..Len(queries) :
                (i # j) => (queries[i][2] # queries[j][2])
          /\ \A i \in FailedQueries :
                /\ i = Len(queries)
                /\ qpc = "raised"
                /\ q_err = queries[i][3]
                /\ result = << >>
          /\ (qpc = "raised") =>
                \/ FailedQueries # {}
                \/ queries = << >> /\ q_err \in { "RuntimeError", "ValueError" })
    /\ [][(qpc = "raised") =>
             UNCHANGED << req, qpc, q_wait, q_cursor, queries, q_pairs,
                          q_stores, q_items, result, q_err >>]_vars

\* the tagged operation has raised the error of its third query, the menu
\* query of the join, after two queries that returned documents
C15_Witness ==
    /\ req.op = "find_stores" /\ req.drink_tags # << >>
    /\ qpc = "raised" /\ q_err = "AutoReconnect"
    /\ Len(queries) = 3 /\ FailedQueries = { 3 }
    /\ q_pairs # << >> /\ q_stores # << >>

\* C16: every drink find_drinks returns carries neither "hit_count" nor
\* "text_score", whether or not tags were supplied.
C16_RankingFieldsStripped ==
    (req.op = "find_drinks" /\ qpc = "done") =>
        \A k \in 1..Len(result) :
            /\ "hit_count" \notin DOMAIN result[k]
            /\ "text_score" \notin DOMAIN result[k]

\* the document of db_store a returned store was made from
StoreOf(doc) == CHOOSE i \in 1..Len(db_store) : db_store[i].name = doc.name

\* the (store_id, platform) pairs of the menu items the text search matches
TextPairs ==
    { << db_item[i].store_id, db_item[i].platform >> :
        i \in { j \in 1..Len(db_item) : db_item[j].score > 0 } }

\* C17: when tags are supplied to find_drink_stores_with_menu, every
\* returned store has the (store_id, platform) of a text-matching menu
\* item; a store whose store_id matched only on another platform is not
\* returned. The
\* collections are those the operation read: no insert, update or delete
\* ran beside it (writes = 0).
C17_PairRestriction ==
    (req.op = "find_stores" /\ req.drink_tags # << >> /\ qpc = "done"
     /\ writes = 0) =>
        \A k \in 1..Len(result) :
            LET store == db_store[StoreOf(result[k])]
            IN  << store.store_id, store.platform >> \in TextPairs

\* the item_ids of a list of menu items, in order
ItemIds(items) == [ i \in 1..Len(items) |-> items[i].item_id ]

\* the menu items of a store: those with its store_id and its platform
ItemsOfStore(store) ==
    SelectSeqIdx(db_item,
                 { i \in 1..Len(db_item) :
                     /\ db_item[i].store_id = store.store_id
                     /\ db_item[i].platform = store.platform }, 1)

\* C18: when no tags are supplied to find_drink_stores_with_menu, no
\* text-search query is issued, the result is the stores of the store query
\* in that query's order, and the menu of each is exactly the list of the
\* menu items of that store (same store_id and platform). The
\* collections are those the operation read: no insert, update or delete
\* ran beside it (writes = 0).
C18_PlainBranch ==
    (req.op = "find_stores" /\ req.drink_tags = << >> /\ qpc = "done"
     /\ writes = 0) =>
        /\ \A q \in 1..Len(queries) : \A j \in 1..Len(queries[q][2]) :
              ~ IsTextStage(queries[q][2][j])
        /\ Len(result) = Len(q_stores)
        /\ \A k \in 1..Len(result) :
              /\ Without(result[k], "menu") = q_stores[k]
              /\ ItemIds(result[k].menu)
                    = ItemIds(ItemsOfStore(db_store[StoreOf(result[k])]))

(* ------------------- claims: the container, continued ----------------- *)
\* the attributes the slot lookup for a name is to probe, in order
ProbeOrder(name) ==
    << name, name \o "_driver", "async_" \o name \o "_driver", name \o "_pool" >>

\* the positions of ProbeOrder(name) whose attribute exists and is not None
Present(name) == { i \in 1..4 : app_state[ProbeOrder(name)[i]] # None }

\* C19: a get_instance call for a registered name of which some attribute
\* {name}, {name}_driver, async_{name}_driver, {name}_pool is set in the
\* shared slot returns the first set one in that order, at once, without
\* touching the lock of the name and without calling initialize.
C19_ProbeOrder ==
    [][\A t \in Tasks :
         (/\ task[t].op = "idle" /\ task'[t].op = "get"
          /\ drivers[task'[t].c][task'[t].name] # 0
          /\ uses_state[task'[t].c]
          /\ Present(task'[t].name) # {})
         => LET name == task'[t].name
                first == CHOOSE i \in Present(name) : \A j \in Present(name) : i <= j
            IN  /\ task'[t].pc = "done"
                /\ task'[t].err = ""
                /\ task'[t].ret = app_state[ProbeOrder(name)[first]]
                /\ UNCHANGED << locked, waitq, init_calls, instances, app_state >>]_vars

\* get_instance('mongo_driver') has returned the value of the attribute
\* mongo_driver while mongo_driver_driver holds another instance
C19_Witness ==
    \E t \in Tasks :
        /\ task[t].op = "get" /\ task[t].pc = "done"
        /\ task[t].name = "mongo_driver"
        /\ app_state["mongo_driver"] # None
        /\ app_state["mongo_driver_driver"] # None
        /\ app_state["mongo_driver"] # app_state["mongo_driver_driver"]
        /\ task[t].ret = app_state["mongo_driver"]
        /\ init_calls[1]["mongo_driver"] = 1

\* whether a name is ready in a container: set in the slot or cached
Ready(c, name) ==
    \/ uses_state[c] /\ Present(name) # {}
    \/ \E i \in 1..Len(instances[c]) : instances[c][i][1] = name

\* C20: a get_instance call waits only on the mutex of its own name: a
\* waiting caller's own mutex is held by a caller of the same name; a call
\* for a ready name returns at once and touches no mutex; a call for an
\* unready name whose own mutex is free enters initialize at once, whatever
\* other mutexes are held (an initialize that never suspends has ended, and
\* the mutex is free again, when the call's first run ends).
C20_PerNameBlocking ==
    /\ [](\A t \in Tasks : (task[t].op = "get" /\ task[t].pc = "waiting") =>
            /\ << task[t].c, task[t].name, task[t].lk >> \in locked
            /\ \E u \in Tasks \ { t } :
                  /\ task[u].op = "get"
                  /\ task[u].c = task[t].c /\ task[u].name = task[t].name
                  /\ task[u].pc \in { "initializing", "acquired" })
    /\ [][\A t \in Tasks :
            (/\ task[t].op = "idle" /\ task'[t].op = "get"
             /\ drivers[task'[t].c][task'[t].name] # 0)
            => LET c == task'[t].c
                   name == task'[t].name
               IN  IF Ready(c, name)
                   THEN /\ task'[t].pc = "done" /\ task'[t].ret # None
                        /\ UNCHANGED << locked, waitq >>
                   ELSE IF << c, name, locks[c][name] >> \notin locked
                   THEN /\ init_calls'[c][name] = init_calls[c][name] + 1
                        /\ UNCHANGED waitq
                        /\ \/ /\ task'[t].pc = "initializing"
                              /\ locked' = locked \cup
                                              { << c, name, locks[c][name] >> }
                           \/ /\ task'[t].pc = "done"
                              /\ InitRaisesAtOnce(c, name)
                                    \/ InitReturnsAtOnce(c, name)
                              /\ UNCHANGED locked
                   ELSE task'[t].pc = "waiting"]_vars

\* initialize for 'mongo' is in progress with its mutex held, and a
\* get_instance for 'httpx' has run to completion with a new instance
C20_Witness ==
    \E t, u \in Tasks :
        /\ task[t].op = "get" /\ task[t].name = "mongo"
        /\ task[t].pc = "initializing"
        /\ << 1, "mongo", locks[1]["mongo"] >> \in locked
        /\ task[u].op = "get" /\ task[u].name = "httpx"
        /\ task[u].pc = "done" /\ task[u].ret # None
        /\ init_calls[1]["httpx"] = 1

\* C21: when every initialize call terminates, every get_instance call
\* eventually returns an instance or raises; a caller woken on the mutex of
\* a name that is still not ready (the initialize before it failed) calls
\* initialize itself.
C21_EventuallyReturns ==
    /\ \A t \in Tasks :
          (task[t].op = "get") ~>
              (task[t].pc = "done" /\ (task[t].ret # None \/ task[t].err # ""))
    /\ [][\A t \in Tasks :
            (task[t].pc = "acquired" /\ task'[t].pc # "acquired"
             /\ ~ Ready(task[t].c, task[t].name))
            => (task'[t].pc = "initializing"
                /\ init_calls'[task[t].c][task[t].name]
                      = init_calls[task[t].c][task[t].name] + 1)]_vars

\* a caller has got an instance from the second initialize call for a
\* name, the first one having failed for another caller
C21_Witness ==
    \E t, u \in Tasks :
        /\ task[t].op = "get" /\ task[t].pc = "done" /\ task[t].err = "InitError"
        /\ task[u].op = "get" /\ task[u].pc = "done" /\ task[u].ret # None
        /\ task[u].name = task[t].name /\ task[u].c = task[t].c
        /\ init_calls[task[t].c][task[t].name] = 2

(* ------------------ claims: the query engine, continued --------------- *)
\* the position of a returned store in the answer of the store query
StoreQueryAt(doc) ==
    CHOOSE i \in 1..Len(q_stores) : q_stores[i].name = doc.name

\* C22: the ranking of find_drink_stores_with_menu is a stable sort on the
\* hit count alone: two returned stores with equally many matched menu
\* items are in the relative order in which the store query returned them.
C22_StableRanking ==
    (req.op = "find_stores" /\ req.drink_tags # << >> /\ qpc = "done") =>
        \A k, l \in 1..Len(result) :
            (k < l /\ Len(result[k].menu) = Len(result[l].menu))
            => StoreQueryAt(result[k]) < StoreQueryAt(result[l])

\* three stores were ranked: the farthest has the most matched items and
\* comes first, the two others tie and keep the order of the store query
C22_Witness ==
    /\ req.op = "find_stores" /\ req.drink_tags # << >> /\ qpc = "done"
    /\ Len(result) = 3 /\ Len(q_stores) = 3
    /\ result[1].name = q_stores[3].name
    /\ result[2].name = q_stores[1].name
    /\ result[3].name = q_stores[2].name
    /\ Len(result[1].menu) > Len(result[2].menu)
    /\ Len(result[2].menu) = Len(result[3].menu)

\* the number of attribute filters the request supplies
SuppliedFilters ==
    (IF req.platform # Null THEN 1 ELSE 0)
    + (IF req.rating_range # NoRange THEN 1 ELSE 0)
    + (IF req.review_count_range # NoRange THEN 1 ELSE 0)

\* C23: every store pipeline has, right after the geo stage, the attribute
\* match stage, whose condition holds exactly one predicate per supplied
\* filter (equality for platform, inclusive range for rating and for review
\* count) and nothing else, and is the always-true condition when no filter
\* is supplied.
C23_AttributeFilter ==
    \A q \in 1..Len(queries) :
        (queries[q][1] = "store") =>
            LET st == queries[q][2][2]
                has(p) == \E i \in 1..Len(st.cond) : st.cond[i] = p
            IN  /\ st.op = "$match"
                /\ Len(st.cond) = (IF SuppliedFilters = 0 THEN 1 ELSE SuppliedFilters)
                /\ (SuppliedFilters = 0) => has([ field |-> "$expr", always |-> TRUE ])
                /\ (req.platform # Null) =>
                      has([ field |-> "platform", eq |-> req.platform ])
                /\ (req.rating_range # NoRange) =>
                      has([ field |-> "rating.value", gte |-> req.rating_range[1],
                            lte |-> req.rating_range[2] ])
                /\ (req.review_count_range # NoRange) =>
                      has([ field |-> "rating.review_count",
                            gte |-> req.review_count_range[1],
                            lte |-> req.review_count_range[2] ])

(* ------------------- claims: the container, implicit ------------------ *)
\* C24: on a container with a shared-state object, when no cleanup_all is
\* running, a get_instance call never returns an instance on which a
\* driver's cleanup has been invoked.
C24_NoClosedInstance ==
    [][\A t \in Tasks :
         (/\ task[t].pc # "done"
          /\ task'[t].op = "get" /\ task'[t].pc = "done"
          /\ task'[t].ret # None
          /\ uses_state[task'[t].c]
          /\ ~ \E u \in Tasks :
                 task[u].op = "cleanup" /\ task[u].pc # "done")
         => task'[t].ret \notin cleaned]_vars

\* C25: in one container, a get_instance call returns only an instance that
\* was initialized for the requested name (the cache entry of that name),
\* never the instance of another registered name, also for names related
\* by the slot naming convention.
C25_OwnInstance ==
    \A t \in Tasks :
        (task[t].op = "get" /\ task[t].pc = "done" /\ task[t].ret # None) =>
            \E i \in 1..Len(instances[task[t].c]) :
                instances[task[t].c][i] = << task[t].name, task[t].ret >>

\* C26: under any interleaving of cleanup_all and get_instance on one
\* container, every instance that leaves the local cache has had its
\* driver's cleanup invoked.
C26_NoInstanceDropped ==
    [][\A c \in Cont : \A e \in CacheEntries(c) :
         (\A i \in 1..Len(instances'[c]) : instances'[c][i] # e)
         => e[2] \in cleaned]_vars

\* C27: in one container, under any interleaving of get_instance and
\* register_driver, at most one initialize call for a name is in progress
\* at a time, and a lock that is held is the current lock of its name.
C27_RegisterWhileHeld ==
    /\ \A c \in Cont, n \in AllNames :
          Cardinality({ t \in Tasks :
                          /\ task[t].op = "get" /\ task[t].pc = "initializing"
                          /\ task[t].c = c /\ task[t].name = n }) <= 1
    /\ \A l \in locked : l[3] = locks[l[1]][l[2]]

\* C28: whenever get_driver('mongo') returns (its get_instance call returns
\* an instance), the MongoDriver object of the container is initialized,
\* also when the instance came from the shared slot.
C28_DriverInitialized ==
    [][\A t \in Tasks :
         (/\ task[t].pc # "done"
          /\ task'[t].op = "get" /\ task'[t].pc = "done"
          /\ task'[t].name = "mongo" /\ task'[t].ret # None)
         => IsInitialized(mongo_drv'[task'[t].c])]_vars

\* C29: a MongoDriver reports itself initialized only while an initialize
\* call is running or when its latest initialize call returned and no
\* cleanup ran since; an initialize that failed leaves it uninitialized.
C29_InitializedOnlyAfterSuccess ==
    \A c \in Cont :
        IsInitialized(mongo_drv[c]) => mongo_drv[c].last \in { "ok", "running" }

\* C30: the in-memory menu join returns exactly one document per input
\* store, each the input store plus its menu (empty when it has no item),
\* and leaves the input store documents as they were handed to it, with no
\* menu and no hit_count.
C30_JoinFrame ==
    /\ []((req.op = "find_stores" /\ qpc = "done" /\ result # << >>) =>
            /\ Len(result) = Len(q_stores)
            /\ \A i \in 1..Len(q_stores) :
                  Cardinality({ k \in 1..Len(result) :
                                  /\ "menu" \in DOMAIN result[k]
                                  /\ Without(result[k], "menu") = q_stores[i] })
                    = Cardinality({ j \in 1..Len(q_stores) :
                                      q_stores[j] = q_stores[i] })
            /\ \A i \in 1..Len(q_stores) :
                  /\ "menu" \notin DOMAIN q_stores[i]
                  /\ "hit_count" \notin DOMAIN q_stores[i])
    /\ [][(qpc = "join") => (q_stores' = q_stores)]_vars

\* the join has returned several stores, one with an empty menu and one
\* with items
C30_Witness ==
    /\ req.op = "find_stores" /\ qpc = "done"
    /\ Len(result) >= 2 /\ Len(result) = Len(q_stores)
    /\ \E k \in 1..Len(result) : result[k].menu = << >>
    /\ \E k \in 1..Len(result) : result[k].menu # << >>

====
